---- MODULE Spec2Model ----
(***************************************************************************)
(* A state-machine model of the GAIA C++ agent core: the agent execution   *)
(* loop (Agent::processQuery), the LLM response parser, the tool registry  *)
(* and the MCP client with its one-shot reconnect.                         *)
(*                                                                         *)
(* Strings are TLA+ strings: Len, \o and SubSeq act on them character by   *)
(* character, so lengths and substrings are the program's.                 *)
(***************************************************************************)
EXTENDS Integers, Sequences, FiniteSets, TLC

VARIABLES
    \* ---- Agent members (agent.h) ----
    config_,               \* AgentConfig: [maxSteps, maxHistoryMessages,
                           \*               maxConsecutiveRepeats]
    tools_,                \* ToolRegistry::tools_: name -> ToolInfo
    conversationHistory_,  \* persisted history, a sequence of Message
    executionState_,       \* AgentState
    mcpClients_,           \* server name -> MCPClient
    mcpServerConfigs_,     \* server name -> saved spawn config
    \* ---- locals of the running processQuery ----
    pc,                    \* position of processQuery
    userInput,
    stepsLimit,
    stepsTaken,
    messages,              \* the live conversation
    finalAnswer,
    lastError,
    errorCount,
    stepResults,
    toolCallHistory,       \* (name, args) of the executed calls
    response,              \* the LLM reply of the current step
    parsed,                \* ParsedResponse of the current step
    outcome,               \* what the last processQuery call gave its caller
    \* ---- the environment ----
    procs,                 \* child processes: pid -> "alive" | "deaf" | "dead" |
                           \*                         "reaped"
    \* ---- observation (history variables, read by the properties only) ----
    queries,               \* processQuery calls started
    fuel,                  \* processQuery calls and loop iterations started
    llmLog,                \* the LLM calls of the current step: the messages passed
    llmCallsAfterFailure,  \* LLM or tool calls made after the retry failed
    requested,             \* tool names the model requested in this query
    executed,              \* tool names executed in this query
    exitReason,            \* how the loop of this query ended
    lastToolMsg,           \* [result, content]: the last tool message built
    regLast,               \* the last registry operation and its outcome
    mcpLast,               \* the last remote tool invocation: how it was entered,
                           \* the children spawned, the callTool calls made
                           \* (tries), the tools/call requests sent (calls),
                           \* the reconnects, and its outcome
    \* ---- an MCPClient used on its own (mcp_client.h) ----
    client,                \* the MCPClient: its transport and its cachedTools_
    wire,                  \* the requests this client's transport has written
                           \* to its children, in order: [id, ended, line],
                           \* line being the state of the child's answer:
                           \* "none", "unread" (in the pipe) or "read"
    clientLast,            \* the last operation on the client and its outcome
    \* ---- the system prompt (agent.h) ----
    cachedSystemPrompt_,   \* the prompt composed last
    systemPromptDirty_     \* the prompt is to be composed at the next call

vars == <<config_, tools_, conversationHistory_, executionState_, mcpClients_,
          mcpServerConfigs_, pc, userInput, stepsLimit, stepsTaken, messages,
          finalAnswer, lastError, errorCount, stepResults, toolCallHistory,
          response, parsed, outcome, procs, queries, fuel, llmLog,
          llmCallsAfterFailure, requested, executed, exitReason, lastToolMsg,
          regLast, mcpLast, client, wire, clientLast, cachedSystemPrompt_,
          systemPromptDirty_>>

agentVars == <<config_, conversationHistory_, executionState_>>
queryVars == <<pc, userInput, stepsLimit, stepsTaken, messages, finalAnswer,
               lastError, errorCount, stepResults, toolCallHistory, response,
               parsed, outcome>>
obsVars   == <<queries, fuel, llmLog, llmCallsAfterFailure, requested,
               executed, exitReason, lastToolMsg>>
clientVars == <<client, wire, clientLast>>
promptVars == <<cachedSystemPrompt_, systemPromptDirty_>>
mcpVars   == <<mcpClients_, mcpServerConfigs_, procs, mcpLast, clientVars>>

-----------------------------------------------------------------------------
(* Bounds of the model *)

MaxSteps == 5        \* the largest step limit explored
MaxFuel == 6         \* processQuery calls plus loop iterations of a run
MaxQueries == 2      \* processQuery calls per run
MaxSpawns == 3       \* child processes spawned per run
MaxRequests == 3     \* requests a transport builds
MaxLaunches == 2     \* children the client used on its own launches

(* Constants of the program *)

TruncateLimit == 20000   \* resultStr.size() > 20000
TruncateHead == 10000    \* resultStr.substr(0, 10000)
TruncateTail == 5000     \* resultStr.substr(size - 5000)
LoopMinHistory == 4      \* toolCallHistory.size() >= 4
LoopWindow == 3          \* i = size - 3 .. size - 1

-----------------------------------------------------------------------------
(* Strings *)

RECURSIVE Repeat(_, _)
Repeat(s, n) ==
    IF n <= 0 THEN ""
    ELSE IF n % 2 = 1 THEN s \o Repeat(s, n - 1)
    ELSE LET h == Repeat(s, n \div 2) IN h \o h

CharAt(s, i) == SubSeq(s, i, i)

IsSpace(c) == c \in {" ", "\t", "\n", "\r"}

SetMin(S) == CHOOSE x \in S : \A y \in S : x <= y
SetMax(S) == CHOOSE x \in S : \A y \in S : x >= y

\* positions of s holding a non-whitespace character
NonSpace(s) == {i \in 1..Len(s) : ~IsSpace(CharAt(s, i))}

\* find_first_not_of / find_last_not_of(" \t\n\r") and substr
Trim(s) ==
    IF NonSpace(s) = {} THEN s
    ELSE SubSeq(s, SetMin(NonSpace(s)), SetMax(NonSpace(s)))

\* std::string::substr(pos, n), pos counted from 0
Substr(s, pos, n) == SubSeq(s, pos + 1, IF pos + n > Len(s) THEN Len(s) ELSE pos + n)

-----------------------------------------------------------------------------
(* JSON values.  A value is [t, v]: its type tag and its text (a string's  *)
(* characters; for every other type the serialized form).                  *)

Absent == [t |-> "absent", v |-> ""]
JString(s) == [t |-> "string", v |-> s]
JNumber(lex) == [t |-> "number", v |-> lex]
JObject(lex) == [t |-> "object", v |-> lex]
JArray(lex) == [t |-> "array", v |-> lex]

\* json::dump() of a value
Dump(j) == IF j.t = "string" THEN "\"" \o j.v \o "\"" ELSE j.v

\* std::optional
None == <<>>
Some(x) == <<x>>
HasValue(o) == o # <<>>
Value(o) == o[1]

\* basic_json::value(key, default) with a string default: the default when
\* the key is absent, the string when it holds one, type_error 302 otherwise
ValueString(field, default) ==
    IF field.t = "absent" THEN [threw |-> FALSE, v |-> default]
    ELSE IF field.t = "string" THEN [threw |-> FALSE, v |-> field.v]
    ELSE [threw |-> TRUE, v |-> ""]

-----------------------------------------------------------------------------
(* Messages *)

Message(role, content, name) == [role |-> role, content |-> content, name |-> name]

UserMessage(content) == Message("user", content, None)
\* the mutant: the reply is kept without its text
AssistantMessageBlank(content) == Message("assistant", "", None)

AssistantMessage(content) == Message("assistant", content, None)
ToolMessage(name, content) == Message("tool", content, Some(name))

-----------------------------------------------------------------------------
(* LLM replies.  A reply is its raw text together with what json::parse    *)
(* makes of the trimmed text: an object (its six fields of interest) or a  *)
(* parse error.                                                            *)

NoFields == [thought |-> Absent, goal |-> Absent, answer |-> Absent,
             tool |-> Absent, tool_args |-> Absent, plan |-> Absent]

ObjectReply(raw, fields) == [raw |-> raw, json |-> "object", j |-> fields]
TextReply(raw) == [raw |-> raw, json |-> "parse_error", j |-> NoFields]

ToolReply(name) ==
    ObjectReply("{\"thought\":\"t\",\"tool\":\"" \o name \o "\",\"tool_args\":{}}",
                [NoFields EXCEPT !.thought = JString("t"), !.tool = JString(name),
                                 !.tool_args = JObject("{}")])

\* tool names the model asks for: the two registered ones
RequestedTools == {"echo", "probe"}

\* replies that end the query when they parse
FinalReplies == {
    TextReply(" pong "),
    ObjectReply("{\"thought\":\"t\",\"goal\":\"g\",\"answer\":\"done\"}",
                [NoFields EXCEPT !.thought = JString("t"), !.goal = JString("g"),
                                 !.answer = JString("done")]),
    ObjectReply("{\"thought\":\"t\",\"answer\":\"\"}",
                [NoFields EXCEPT !.thought = JString("t"), !.answer = JString("")]),
    ObjectReply("{\"thought\":\"t\"}",
                [NoFields EXCEPT !.thought = JString("t")]) }

\* replies whose fields have the wrong JSON type
IllTypedReplies == {
    ObjectReply("{\"thought\":1,\"answer\":\"x\"}",
                [NoFields EXCEPT !.thought = JNumber("1"), !.answer = JString("x")]),
    ObjectReply("{\"thought\":\"t\",\"tool\":5}",
                [NoFields EXCEPT !.thought = JString("t"), !.tool = JNumber("5")]) }

Replies == FinalReplies \cup IllTypedReplies \cup {ToolReply(n) : n \in RequestedTools}

-----------------------------------------------------------------------------
(* The response parser (json_utils.cpp) *)

NoParse == [threw |-> FALSE, thought |-> "", goal |-> "", answer |-> None,
            toolName |-> None, toolArgs |-> None, plan |-> None]

\* the fields lifted without the default of value("tool_args", json::object())
LiftFieldsNoDefault(j) ==
    LET th == ValueString(j.thought, "")
        go == ValueString(j.goal, "")
    IN  IF th.threw \/ go.threw THEN [NoParse EXCEPT !.threw = TRUE]
        ELSE IF j.tool.t \notin {"absent", "string"}
             THEN [NoParse EXCEPT !.threw = TRUE]
        ELSE [threw |-> FALSE,
              thought |-> th.v,
              goal |-> go.v,
              answer |-> IF j.answer.t = "absent" THEN None
                         ELSE IF j.answer.t = "string" THEN Some(j.answer.v)
                         ELSE Some(Dump(j.answer)),
              toolName |-> IF j.tool.t = "absent" THEN None ELSE Some(j.tool.v),
              toolArgs |-> IF j.tool.t = "absent" \/ j.tool_args.t = "absent" THEN None
                           ELSE Some(j.tool_args),
              plan |-> IF j.plan.t = "absent" THEN None ELSE Some(j.plan)]

\* the fields lifted from a parsed object: value("thought", ""),
\* value("goal", ""), answer, tool, tool_args, plan, in this order
LiftFields(j) ==
    LET th == ValueString(j.thought, "")
        go == ValueString(j.goal, "")
    IN  IF th.threw \/ go.threw THEN [NoParse EXCEPT !.threw = TRUE]
        ELSE IF j.tool.t \notin {"absent", "string"}
             THEN [NoParse EXCEPT !.threw = TRUE]    \* j["tool"].get<std::string>()
        ELSE [threw |-> FALSE,
              thought |-> th.v,
              goal |-> go.v,
              answer |-> IF j.answer.t = "absent" THEN None
                         ELSE IF j.answer.t = "string" THEN Some(j.answer.v)
                         ELSE Some(Dump(j.answer)),
              toolName |-> IF j.tool.t = "absent" THEN None ELSE Some(j.tool.v),
              toolArgs |-> IF j.tool.t = "absent" THEN None
                           ELSE IF j.tool_args.t = "absent" THEN Some(JObject("{}"))
                           ELSE Some(j.tool_args),
              plan |-> IF j.plan.t = "absent" THEN None ELSE Some(j.plan)]

EmptyReplyAnswer ==
    "I apologize, but I received an empty response from the language model. Please try again."

\* SubSeq that stops at the end of the string
Sub(s, i, j) == SubSeq(s, i, IF j > Len(s) THEN Len(s) ELSE j)

\* std::string::find(pat, from), positions counted from 1; 0 when not found
FindFrom(s, pat, from) ==
    LET at == {i \in from..(Len(s) - Len(pat) + 1) : SubSeq(s, i, i + Len(pat) - 1) = pat}
    IN  IF at = {} THEN 0 ELSE SetMin(at)

\* the regular expression class \s
IsRegexSpace(c) == c \in {" ", "\t", "\n", "\r", "\f"}

\* the position after a greedy \s* that starts at i
SkipSpace(s, i) ==
    SetMin({j \in i..(Len(s) + 1) : j = Len(s) + 1 \/ ~IsRegexSpace(CharAt(s, j))})

\* s without the white space at its end
StripEnd(s) ==
    LET solid == {i \in 1..Len(s) : ~IsRegexSpace(CharAt(s, i))}
    IN  IF solid = {} THEN "" ELSE SubSeq(s, 1, SetMax(solid))

\* json::parse of the texts that are JSON objects: the text and its members
JsonObjects == {
    [text |-> "{\"thought\":\"a\",\"answer\":\"42\"}",
     j |-> [NoFields EXCEPT !.thought = JString("a"), !.answer = JString("42")]],
    [text |-> "{\"thought\":\"t\",\"tool\":\"echo\"}",
     j |-> [NoFields EXCEPT !.thought = JString("t"), !.tool = JString("echo")]],
    [text |-> "{\"thought\":\"t\",\"tool\":\"echo\",\"tool_args\":{\"m\":\"x\"}}",
     j |-> [NoFields EXCEPT !.thought = JString("t"), !.tool = JString("echo"),
                            !.tool_args = JObject("{\"m\":\"x\"}")]],
    [text |-> "{\"thought\":1,\"answer\":\"x\"}",
     j |-> [NoFields EXCEPT !.thought = JNumber("1"), !.answer = JString("x")]],
    [text |-> "{\"thought\":\"t\",\"tool\":5}",
     j |-> [NoFields EXCEPT !.thought = JString("t"), !.tool = JNumber("5")]],
    [text |-> "{\"goal\":[],\"answer\":\"x\"}",
     j |-> [NoFields EXCEPT !.goal = JArray("[]"), !.answer = JString("x")]],
    [text |-> "{\"thought\":\"t\",\"answer\":7}",
     j |-> [NoFields EXCEPT !.thought = JString("t"), !.answer = JNumber("7")]],
    [text |-> "{\"m\":\"x\"}", j |-> NoFields] }

\* json::parse(text): an object of the table, else parse_error (every other
\* text of the model is not JSON)
JsonParse(text) ==
    IF \E o \in JsonObjects : o.text = text
    THEN [json |-> "object", j |-> (CHOOSE o \in JsonObjects : o.text = text).j]
    ELSE [json |-> "parse_error", j |-> NoFields]

\* the bodies captured by  OPEN (?:tag)? \s* ([\s\S]*?) \s* CLOSE  in s from
\* position from on, in the order of the matches
RECURSIVE Captures(_, _, _, _, _)
Captures(s, open, tag, close, from) ==
    LET i == FindFrom(s, open, from)
        a == i + Len(open)
        b == IF tag # "" /\ Sub(s, a, a + Len(tag) - 1) = tag THEN a + Len(tag) ELSE a
        c == SkipSpace(s, b)
        q == FindFrom(s, close, c)
    IN  IF i = 0 \/ q = 0 THEN <<>>
        ELSE <<StripEnd(Sub(s, c, q - 1))>> \o Captures(s, open, tag, close, q + Len(close))

\* lines 94-108 of extractJsonFromResponse: the first body that parses to
\* an object
RECURSIVE FirstObject(_)
FirstObject(bodies) ==
    IF bodies = <<>> THEN None
    ELSE IF JsonParse(Head(bodies)).json = "object" THEN Some(JsonParse(Head(bodies)).j)
    ELSE FirstObject(Tail(bodies))

\* the characters the scan of extractFirstJsonObject skips: the one after a
\* backslash that was not skipped itself
RECURSIVE Escaped(_, _, _)
Escaped(s, start, i) ==
    i > start /\ CharAt(s, i - 1) = "\\" /\ ~Escaped(s, start, i - 1)

\* the scan is outside a string after character i: an even number of quotes
\* from start to i
OutsideString(s, start, i) ==
    Cardinality({k \in start..i : CharAt(s, k) = "\"" /\ ~Escaped(s, start, k)}) % 2 = 0

\* bracketCount after character i
BracketCount(s, start, i) ==
    LET counted(c) == {k \in start..i : /\ CharAt(s, k) = c
                                        /\ ~Escaped(s, start, k)
                                        /\ OutsideString(s, start, k)}
    IN  Cardinality(counted("{")) - Cardinality(counted("}"))

\* extractFirstJsonObject: from the first brace to the brace that closes it,
\* braces inside strings not counted
extractFirstJsonObject(text) ==
    LET startIdx == FindFrom(text, "{", 1)
        closing == {i \in startIdx..Len(text) :
                       /\ CharAt(text, i) = "}"
                       /\ ~Escaped(text, startIdx, i)
                       /\ OutsideString(text, startIdx, i)
                       /\ BracketCount(text, startIdx, i) = 0}
    IN  IF startIdx = 0 \/ closing = {} THEN ""
        ELSE SubSeq(text, startIdx, SetMin(closing))

\* regex_replace of  ,\s*CLOSER  by CLOSER
RECURSIVE RemoveCommasBefore(_, _)
RemoveCommasBefore(s, closer) ==
    LET at == {i \in 1..Len(s) : /\ CharAt(s, i) = ","
                                 /\ Sub(s, SkipSpace(s, i + 1), SkipSpace(s, i + 1)) = closer}
    IN  IF at = {} THEN s
        ELSE SubSeq(s, 1, SetMin(at) - 1)
             \o RemoveCommasBefore(SubSeq(s, SkipSpace(s, SetMin(at) + 1), Len(s)), closer)

\* lines 115-116: trailing commas before } and before ] removed
RemoveTrailingCommas(s) == RemoveCommasBefore(RemoveCommasBefore(s, "}"), "]")

\* lines 111-130 of extractJsonFromResponse: bracket matching
BracketMatched(extracted) ==
    IF extracted = "" THEN None
    ELSE IF JsonParse(RemoveTrailingCommas(extracted)).json = "object"
    THEN Some(JsonParse(RemoveTrailingCommas(extracted)).j)
    ELSE None

\* the backquote, which a TLA+ string cannot hold, is written ^ here; no
\* text of the model holds a ^ of its own
Tick == "^"
Fence == Tick \o Tick \o Tick

\* extractJsonFromResponse: the code blocks of the three patterns, then
\* bracket matching.  (The tool_args it adds are the ones value("tool_args",
\* json::object()) gives when the fields are lifted.)
extractJsonFromResponse(text) ==
    LET blocks == Captures(text, Fence, "json", Fence, 1)
                  \o Captures(text, Tick \o "json", "", Tick, 1)
                  \o Captures(text, "<json>", "", "</json>", 1)
    IN  IF HasValue(FirstObject(blocks)) THEN FirstObject(blocks)
        ELSE BracketMatched(extractFirstJsonObject(text))

\* regex_search of  "key"\s*:\s*"([^"]*)"  from position from on
RECURSIVE FieldRegex(_, _, _)
FieldRegex(s, key, from) ==
    LET i == FindFrom(s, "\"" \o key \o "\"", from)
        c == SkipSpace(s, i + Len(key) + 2)
        d == SkipSpace(s, c + 1)
        e == FindFrom(s, "\"", d + 1)
    IN  IF i = 0 THEN None
        ELSE IF Sub(s, c, c) = ":" /\ Sub(s, d, d) = "\"" /\ e # 0
        THEN Some(Sub(s, d + 1, e - 1))
        ELSE FieldRegex(s, key, i + 1)

\* lines 305-318: the object after  "tool_args"\s*:\s*  when it parses
RECURSIVE ToolArgsRegex(_, _)
ToolArgsRegex(s, from) ==
    LET i == FindFrom(s, "\"tool_args\"", from)
        c == SkipSpace(s, i + 11)
        argsJson == extractFirstJsonObject(Sub(s, SkipSpace(s, c + 1), Len(s)))
    IN  IF i = 0 THEN JObject("{}")
        ELSE IF Sub(s, c, c) # ":" THEN ToolArgsRegex(s, i + 1)
        ELSE IF JsonParse(argsJson).json = "object" THEN JObject(argsJson)
        ELSE JObject("{}")

\* lines 284-326: the fields found by the regular expressions, else the
\* whole text as the answer
RegexFields(trimmed, thought, tool, answer) ==
    IF HasValue(answer)
    THEN [NoParse EXCEPT !.answer = answer,
                         !.thought = IF HasValue(thought) THEN Value(thought) ELSE ""]
    ELSE IF HasValue(tool)
    THEN [NoParse EXCEPT !.toolName = tool,
                         !.toolArgs = Some(ToolArgsRegex(trimmed, 1)),
                         !.thought = IF HasValue(thought) THEN Value(thought) ELSE ""]
    ELSE [NoParse EXCEPT !.answer = Some(trimmed)]

\* lines 262-326: what extraction gave, else the regular expressions
Extracted(trimmed, extracted) ==
    IF HasValue(extracted) THEN LiftFields(Value(extracted))
    ELSE RegexFields(trimmed, FieldRegex(trimmed, "thought", 1),
                     FieldRegex(trimmed, "tool", 1), FieldRegex(trimmed, "answer", 1))

\* lines 225-326: the trimmed text
ParseTrimmed(reply, trimmed) ==
    IF trimmed = "" \/ CharAt(trimmed, 1) # "{"
    THEN [NoParse EXCEPT !.answer = Some(trimmed)]
    ELSE IF reply.json = "object" THEN LiftFields(reply.j)
    ELSE Extracted(trimmed, extractJsonFromResponse(trimmed))

parseLlmResponse(reply) ==
    IF reply.raw = "" \/ NonSpace(reply.raw) = {}
    THEN [NoParse EXCEPT !.thought = "LLM returned empty response",
                         !.goal = "Handle empty response error",
                         !.answer = Some(EmptyReplyAnswer)]
    ELSE ParseTrimmed(reply, Trim(reply.raw))

-----------------------------------------------------------------------------
(* Tool results.  What the loop reads of a result: whether it is an        *)
(* object, its "status" and "error" members, and its dump().               *)

ToolValue(isObject, status, error, text) ==
    [isObject |-> isObject, status |-> status, error |-> error, text |-> text]

\* json{{"status", "error"}, {"error", msg}}; dump() orders the keys
ErrorResult(msg) ==
    ToolValue(TRUE, JString("error"), JString(msg),
              "{\"error\":\"" \o msg \o "\",\"status\":\"error\"}")

\* json{{"error", msg}}
ErrorData(msg) ==
    ToolValue(TRUE, Absent, JString(msg), "{\"error\":\"" \o msg \o "\"}")

\* json{{"data", "aaa..."}} whose dump() has n characters (n >= 11)
DataResult(n) ==
    ToolValue(TRUE, Absent, Absent, "{\"data\":\"" \o Repeat("a", n - 11) \o "\"}")

\* what a call of a callback does: it returns a value, throws an exception
\* derived from std::exception (what() is its message), or throws an object
\* of another type
Returned(value) == [threw |-> FALSE, std |-> TRUE, what |-> "", value |-> value]
Threw(what) == [threw |-> TRUE, std |-> TRUE, what |-> what, value |-> ErrorData("")]
ThrewOther(what) == [threw |-> TRUE, std |-> FALSE, what |-> what, value |-> ErrorData("")]

\* the local callbacks of the model: what each does when called
LocalCallbacks == {"cb_echo", "cb_fail", "cb_big", "cb_edge", "cb_throw",
                   "cb_throw_int", "cb_text", "cb_status_num", "cb_error_obj",
                   "cb_no_error"}

CallbackOutcome(cb) ==
    CASE cb = "cb_echo" ->
           Returned(ToolValue(TRUE, Absent, Absent, "{\"echoed\":\"hi\"}"))
      [] cb = "cb_fail" ->
           Returned(ErrorResult("Intentional failure"))
      [] cb = "cb_big" -> Returned(DataResult(TruncateLimit + 1))
      [] cb = "cb_edge" -> Returned(DataResult(TruncateLimit))
      [] cb = "cb_throw" -> Threw("boom")            \* throw std::runtime_error("boom")
      [] cb = "cb_throw_int" -> ThrewOther("int")    \* throw 42
      [] cb = "cb_text" ->
           Returned(ToolValue(FALSE, Absent, Absent, "\"done\""))
      [] cb = "cb_status_num" ->
           Returned(ToolValue(TRUE, JNumber("1"), Absent, "{\"status\":1}"))
      [] cb = "cb_error_obj" ->
           Returned(ToolValue(TRUE, JString("error"), JObject("{\"code\":7}"),
                              "{\"error\":{\"code\":7},\"status\":\"error\"}"))
      [] cb = "cb_no_error" ->
           Returned(ToolValue(TRUE, JString("error"), Absent, "{\"status\":\"error\"}"))

-----------------------------------------------------------------------------
(* The tool registry (tool_registry.cpp) *)

ToolInfo(name, description, parameters, callback, mcpServer, mcpToolName) ==
    [name |-> name, description |-> description, parameters |-> parameters,
     callback |-> callback, mcpServer |-> mcpServer, mcpToolName |-> mcpToolName]

\* the convenience overload of registerTool builds this descriptor
LocalTool(name, description, callback) ==
    ToolInfo(name, description, <<>>, Some(callback), None, None)

EmptyRegistry == <<>>

hasTool(reg, name) == name \in DOMAIN reg

\* std::map::emplace of a key that is not present
Emplace(reg, name, info) ==
    [n \in DOMAIN reg \cup {name} |-> IF n = name THEN info ELSE reg[n]]

\* the mutant: registers without the duplicate test, replacing the entry
registerToolOverwrites(reg, info) ==
    [threw |-> FALSE, what |-> "", tools |-> Emplace(reg, info.name, info)]

\* ToolRegistry::registerTool: throws when the name is present
registerTool(reg, info) ==
    IF hasTool(reg, info.name)
    THEN [threw |-> TRUE, what |-> "Tool already registered: " \o info.name, tools |-> reg]
    ELSE [threw |-> FALSE, what |-> "", tools |-> Emplace(reg, info.name, info)]

removeTool(reg, name) == [n \in DOMAIN reg \ {name} |-> reg[n]]

findTool(reg, name) == IF hasTool(reg, name) THEN Some(reg[name]) ELSE None

UpperCase == "ABCDEFGHIJKLMNOPQRSTUVWXYZ"
LowerCase == "abcdefghijklmnopqrstuvwxyz"

\* ::tolower on the letters A..Z
LowerMap ==
    [c \in {CharAt(UpperCase, i) : i \in 1..Len(UpperCase)} |->
        CharAt(LowerCase, CHOOSE i \in 1..Len(UpperCase) : CharAt(UpperCase, i) = c)]

LowerChar(c) == IF c \in DOMAIN LowerMap THEN LowerMap[c] ELSE c

RECURSIVE toLower(_)
toLower(s) ==
    IF s = "" THEN ""
    ELSE LowerChar(CharAt(s, 1)) \o toLower(SubSeq(s, 2, Len(s)))

EndsWith(s, suffix) ==
    /\ Len(s) >= Len(suffix)
    /\ SubSeq(s, Len(s) - Len(suffix) + 1, Len(s)) = suffix

\* the mutant: the first candidate of a stage is taken, unique or not
resolveNameFirstMatch(reg, name) ==
    LET lower == toLower(name)
        suffix == "_" \o lower
        bySuffix == {n \in DOMAIN reg : EndsWith(toLower(n), suffix)}
        byName == {n \in DOMAIN reg : toLower(n) = lower}
    IN  IF bySuffix # {} THEN CHOOSE n \in bySuffix : TRUE
        ELSE IF byName # {} THEN CHOOSE n \in byName : TRUE
        ELSE ""

\* the mutant: the stage of the equal names comes first
resolveNameExactFirst(reg, name) ==
    LET lower == toLower(name)
        suffix == "_" \o lower
        bySuffix == {n \in DOMAIN reg : EndsWith(toLower(n), suffix)}
        byName == {n \in DOMAIN reg : toLower(n) = lower}
    IN  IF Cardinality(byName) = 1 THEN CHOOSE n \in byName : TRUE
        ELSE IF Cardinality(bySuffix) = 1 THEN CHOOSE n \in bySuffix : TRUE
        ELSE ""

\* ToolRegistry::resolveName: a unique suffix match, else a unique
\* case-insensitive match, else empty
resolveName(reg, name) ==
    LET lower == toLower(name)
        suffix == "_" \o lower
        bySuffix == {n \in DOMAIN reg : EndsWith(toLower(n), suffix)}
        byName == {n \in DOMAIN reg : toLower(n) = lower}
    IN  IF Cardinality(bySuffix) = 1 THEN CHOOSE n \in bySuffix : TRUE
        ELSE IF Cardinality(byName) = 1 THEN CHOOSE n \in byName : TRUE
        ELSE ""

\* the descriptor ToolRegistry::executeTool ends up with: the exact match,
\* else the resolved name's
LookupTool(reg, name) ==
    IF hasTool(reg, name) THEN findTool(reg, name)
    ELSE LET resolved == resolveName(reg, name)
         IN  IF resolved # "" THEN findTool(reg, resolved) ELSE None

\* lines 123-135 of ToolRegistry::executeTool: the descriptor found, if any,
\* is run; called is what its callback does when it is called.  The handler
\* is catch (const std::exception&): any other thrown object leaves
\* executeTool.
RunTool(tool, name, called) ==
    IF ~HasValue(tool)
    THEN Returned(ErrorResult("Tool '" \o name \o "' not found"))
    ELSE IF ~HasValue(Value(tool).callback)
    THEN Returned(ErrorResult("Tool '" \o name \o "' has no callback"))
    ELSE IF called.threw /\ called.std
    THEN Returned(ErrorResult("Tool execution failed: " \o called.what))
    ELSE called

\* ToolRegistry::executeTool
executeTool(reg, name, called) == RunTool(LookupTool(reg, name), name, called)

-----------------------------------------------------------------------------
(* The agent loop: the decisions of Agent::processQuery (agent.cpp) *)

\* int stepsLimit = (maxSteps > 0) ? maxSteps : config_.maxSteps
StepsLimit(maxSteps, configured) == IF maxSteps > 0 THEN maxSteps ELSE configured

\* while (stepsTaken < stepsLimit && finalAnswer.empty())
LoopCondition(taken, limit, answer) == taken < limit /\ answer = ""

RecoveryPrompt(error, input) ==
    "TOOL EXECUTION FAILED!\n\n" \o "Error: " \o error \o "\n\n"
    \o "Original task: " \o input \o "\n\n"
    \o "Please analyze the error and try an alternative approach.\n"
    \o "Respond with {\"thought\": \"...\", \"goal\": \"...\", \"tool\": \"...\", \"tool_args\": {...}}"

LlmErrorAnswer(what) == "Unable to complete task due to LLM error: " \o what

LoopStopAnswer == "Task stopped due to repeated tool call loop."

StepLimitAnswer(limit) ==
    "Reached maximum steps limit (" \o ToString(limit) \o " steps)."

\* the loop detector: at least four executed calls, the last three of them
\* (and so the last one) of the tool now requested
LoopDetected(history, toolName) ==
    /\ Len(history) >= LoopMinHistory
    /\ \A i \in (Len(history) - LoopWindow + 1)..Len(history) : history[i][1] = toolName
    /\ history[Len(history)][1] = toolName

TruncationMarker == "\n...[truncated]...\n"

\* the mutant: keeps the head and the whole rest after it
TruncateResultKeepsAll(resultStr) ==
    IF Len(resultStr) > TruncateLimit
    THEN Substr(resultStr, 0, TruncateHead) \o TruncationMarker
         \o Substr(resultStr, TruncateHead, Len(resultStr))
    ELSE resultStr

\* the content of the tool message built from dump()
TruncateResult(resultStr) ==
    IF Len(resultStr) > TruncateLimit
    THEN Substr(resultStr, 0, TruncateHead) \o TruncationMarker
         \o Substr(resultStr, Len(resultStr) - TruncateTail, TruncateTail)
    ELSE resultStr

\* the mutant: rewrites the content and leaves the role
PersistMessageKeepsRole(msg) ==
    IF msg.role = "tool"
    THEN Message("tool", "[Result from " \o (IF HasValue(msg.name) THEN Value(msg.name) ELSE "tool")
                         \o "]: " \o msg.content, None)
    ELSE msg

\* a message as it is stored in the history: a tool message becomes a user
\* message quoting the tool's name
PersistMessage(msg) ==
    IF msg.role = "tool"
    THEN Message("user", "[Result from " \o (IF HasValue(msg.name) THEN Value(msg.name) ELSE "tool")
                         \o "]: " \o msg.content, None)
    ELSE msg

\* prune to maxHistoryMessages: erase from the front
Prune(msgs, maxHistoryMessages) ==
    IF maxHistoryMessages > 0 /\ Len(msgs) > maxHistoryMessages
    THEN SubSeq(msgs, Len(msgs) - maxHistoryMessages + 1, Len(msgs))
    ELSE msgs

PersistedHistory(msgs, maxHistoryMessages) ==
    Prune([i \in 1..Len(msgs) |-> PersistMessage(msgs[i])], maxHistoryMessages)

\* the mutant: a failed retry is not final, the loop goes on
OnRetryFailureContinues(what) == [answer |-> "", break |-> FALSE]

\* the inner catch of the retry: the answer is synthesized and the loop left
OnRetryFailure(what) == [answer |-> LlmErrorAnswer(what), break |-> TRUE]

\* the mutant: nothing is synthesized for an empty answer
FinalResultAsIs(answer, limit) == answer

\* the result returned: the answer, or the step-limit answer when it is empty
FinalResult(answer, limit) == IF answer = "" THEN StepLimitAnswer(limit) ELSE answer

\* the error test on a tool result: toolResult.is_object() &&
\* toolResult.value("status", "") == "error", then value("error", ...)
ErrorCheck(toolResult) ==
    IF ~toolResult.isObject THEN [threw |-> FALSE, isError |-> FALSE, error |-> ""]
    ELSE LET st == ValueString(toolResult.status, "")
         IN  IF st.threw THEN [threw |-> TRUE, isError |-> FALSE, error |-> ""]
             ELSE IF st.v # "error" THEN [threw |-> FALSE, isError |-> FALSE, error |-> ""]
             ELSE LET er == ValueString(toolResult.error, "Unknown error")
                  IN  [threw |-> er.threw, isError |-> ~er.threw, error |-> er.v]

-----------------------------------------------------------------------------
(* The consoles (console.h, console.cpp).  Every method of SilentConsole    *)
(* is empty but printFinalAnswer, which writes the answer; TerminalConsole  *)
(* writes to std::cout.                                                     *)

\* the plans of the model: the text of the array and its steps, each an
\* object or not, with its "tool" member
Plans == {
    [text |-> "[{\"tool\":\"echo\"}]",
     steps |-> <<[isObject |-> TRUE, tool |-> JString("echo")]>>],
    [text |-> "[\"look\",{\"tool\":5}]",
     steps |-> <<[isObject |-> FALSE, tool |-> Absent],
                 [isObject |-> TRUE, tool |-> JNumber("5")]>>],
    [text |-> "[{\"tool\":\"echo\"},{\"tool\":\"echo\"}]",
     steps |-> <<[isObject |-> TRUE, tool |-> JString("echo")],
                 [isObject |-> TRUE, tool |-> JString("echo")]>>],
    [text |-> "[\"look\"]",
     steps |-> <<[isObject |-> FALSE, tool |-> Absent]>>] }

PlanSteps(text) == (CHOOSE pl \in Plans : pl.text = text).steps

\* lines 45-62 of TerminalConsole::printPlan: whether it throws; a step that
\* is an object with a "tool" is written with get<std::string>()
TerminalPrintPlan(plan) ==
    /\ plan.t = "array"
    /\ \E i \in DOMAIN PlanSteps(plan.v) :
          /\ PlanSteps(plan.v)[i].isObject
          /\ PlanSteps(plan.v)[i].tool.t \notin {"absent", "string"}

\* console_->printPlan(plan, -1): whether the call throws json::type_error
printPlan(silentMode, plan) == IF silentMode THEN FALSE ELSE TerminalPrintPlan(plan)

\* lines 476-489 of processQuery: whether showing a parsed reply that holds
\* no answer throws
ShowPlan(silentMode, p) ==
    /\ HasValue(p.plan)
    /\ Value(p.plan).t = "array"
    /\ printPlan(silentMode, Value(p.plan))

-----------------------------------------------------------------------------
(* The system prompt (agent.cpp).  A prompt is the lines of its tool        *)
(* listing; the agent's own text and the response format are the same in    *)
(* every prompt.                                                            *)

\* cachedSystemPrompt_ as constructed: the empty string
NoPrompt == [composed |-> FALSE, lines |-> {}]

\* a line of ToolRegistry::formatForPrompt; the tools of the model have no
\* parameters
ToolLine(name, tool) == "- " \o name \o "(): " \o tool.description

\* ToolRegistry::formatForPrompt: a line for every registered tool
formatForPrompt(reg) == {ToolLine(n, reg[n]) : n \in DOMAIN reg}

\* Agent::composeSystemPrompt
composeSystemPrompt(reg) == [composed |-> TRUE, lines |-> formatForPrompt(reg)]

\* the mutant: the prompt composed first is kept
systemPromptKeepsFirst(cached, dirty, reg) ==
    IF dirty /\ ~cached.composed THEN composeSystemPrompt(reg) ELSE cached

\* Agent::systemPrompt: the prompt it returns, which is the cache after it
systemPrompt(cached, dirty, reg) ==
    IF dirty THEN composeSystemPrompt(reg) ELSE cached

\* a call of systemPrompt()
SystemPromptCalled ==
    /\ cachedSystemPrompt_' = systemPrompt(cachedSystemPrompt_, systemPromptDirty_, tools_)
    /\ systemPromptDirty_' = FALSE

-----------------------------------------------------------------------------
(* Initial states *)

NoOutcome == [kind |-> "none", result |-> "", steps_taken |-> 0, steps_limit |-> 0]
NoToolMsg == [dump |-> "", content |-> ""]
NoReply == TextReply("")
NoRegOp == [op |-> "none", info |-> LocalTool("", "", ""), threw |-> FALSE,
            what |-> "", returned |-> "", called |-> "", value |-> ErrorData(""),
            before |-> EmptyRegistry]
NoMcpCall == [tool |-> "", from |-> "registry", kind |-> "none", entry |-> "",
              firstFailed |-> FALSE, reconnected |-> FALSE, spawns |-> 0, tries |-> 0,
              calls |-> 0, reconnects |-> 0, answered |-> "none", failed |-> "",
              children |-> 0, raised |-> FALSE,
              value |-> ErrorData("")]

\* Impl and StdioTransport as constructed: no child, no descriptor, the
\* first request id
NoPid == -1
NoFd == -1
NewTransport == [pid |-> NoPid, stdinFd |-> NoFd, stdoutFd |-> NoFd,
                 running |-> FALSE, requestId_ |-> 0]

\* an MCPClient as constructed
NewClient == [transport_ |-> NewTransport, cachedTools_ |-> None]

\* no request was written, so no id was used
NoId == None
NoClientOp == [op |-> "none", refresh |-> FALSE, kind |-> "none", what |-> "",
               served |-> FALSE, asked |-> FALSE, sent |-> 0, id |-> NoId,
               answerTo |-> NoId,
               returned |-> <<>>, steps |-> <<>>, listed |-> FALSE,
               listedBefore |-> FALSE,
               before |-> NewClient, procsBefore |-> <<>>, wireBefore |-> 0]

\* what the second registered tool does, per deployment; "" leaves it out
ProbeCallbacks == LocalCallbacks \ {"cb_echo"}

Deployment(cb) ==
    LET echo == Emplace(EmptyRegistry, "echo", LocalTool("echo", "Echo back the message", "cb_echo"))
    IN  IF cb = "" THEN echo
        ELSE Emplace(echo, "probe", LocalTool("probe", "Probe", cb))

ConfiguredMaxSteps == {-1, 0, MaxSteps}
ConfiguredMaxHistory == {0, 3}
ConfiguredRepeats == {2, 4}

\* silentMode chooses the console of the agent: SilentConsole, else
\* TerminalConsole
AgentConfig(maxSteps, maxHistoryMessages, maxConsecutiveRepeats) ==
    [maxSteps |-> maxSteps, maxHistoryMessages |-> maxHistoryMessages,
     maxConsecutiveRepeats |-> maxConsecutiveRepeats, silentMode |-> TRUE]

\* the configuration with the console of the default, TerminalConsole
Terminal(config) == [config EXCEPT !.silentMode = FALSE]

\* the agents explored: every deployment under one configuration, and every
\* configuration with one deployment
Agents ==
    {[config |-> AgentConfig(MaxSteps, 0, 4), probe |-> cb] :
        cb \in ProbeCallbacks \cup {""}}
    \cup {[config |-> AgentConfig(m, h, 4), probe |-> "cb_fail"] :
        m \in ConfiguredMaxSteps, h \in ConfiguredMaxHistory}
    \cup {[config |-> AgentConfig(MaxSteps, 0, r), probe |-> ""] :
        r \in ConfiguredRepeats}

QueryIdle ==
    /\ pc = "idle"
    /\ userInput = ""
    /\ stepsLimit = 0
    /\ stepsTaken = 0
    /\ messages = <<>>
    /\ finalAnswer = ""
    /\ lastError = ""
    /\ errorCount = 0
    /\ stepResults = <<>>
    /\ toolCallHistory = <<>>
    /\ response = NoReply
    /\ parsed = NoParse
    /\ outcome = NoOutcome
    /\ queries = 0
    /\ fuel = 0
    /\ llmLog = <<>>
    /\ llmCallsAfterFailure = 0
    /\ requested = <<>>
    /\ executed = <<>>
    /\ exitReason = "none"
    /\ lastToolMsg = NoToolMsg

\* an agent constructed with a configuration and its tools registered
Init ==
    /\ \E a \in Agents :
          /\ config_ = a.config
          /\ tools_ = Deployment(a.probe)
    /\ conversationHistory_ = <<>>
    /\ executionState_ = "PLANNING"
    /\ mcpClients_ = <<>>
    /\ mcpServerConfigs_ = <<>>
    /\ procs = <<>>
    /\ regLast = NoRegOp
    /\ mcpLast = NoMcpCall
    /\ client = NewClient
    /\ wire = <<>>
    /\ clientLast = NoClientOp
    /\ cachedSystemPrompt_ = NoPrompt
    /\ systemPromptDirty_ = TRUE
    /\ QueryIdle

-----------------------------------------------------------------------------
(* Agent::processQuery, step by step *)

UserInputs == {"q"}
MaxStepsArguments == {0, 2}

\* the mutant: the state, the last error and the executed calls of the
\* query before are kept
StartQueryCarriesOver(input, maxSteps) ==
    /\ pc \in {"idle", "returned", "thrown"}
    /\ queries < MaxQueries
    /\ fuel < MaxFuel
    /\ queries' = queries + 1
    /\ fuel' = fuel + 1
    /\ userInput' = input
    /\ stepsLimit' = StepsLimit(maxSteps, config_.maxSteps)
    /\ messages' = Append(conversationHistory_, UserMessage(input))
    /\ stepsTaken' = 0
    /\ finalAnswer' = ""
    /\ errorCount' = 0
    /\ stepResults' = <<>>
    /\ response' = NoReply
    /\ parsed' = NoParse
    /\ outcome' = NoOutcome
    /\ llmLog' = <<>>
    /\ llmCallsAfterFailure' = 0
    /\ requested' = <<>>
    /\ executed' = <<>>
    /\ exitReason' = "none"
    /\ lastToolMsg' = NoToolMsg
    /\ pc' = "loop"
    /\ UNCHANGED <<executionState_, lastError, toolCallHistory, promptVars, config_, tools_, conversationHistory_, regLast, mcpVars>>

\* lines 384-415: the limit, the state reset and the conversation
StartQuery(input, maxSteps) ==
    /\ pc \in {"idle", "returned", "thrown"}
    /\ queries < MaxQueries
    /\ fuel < MaxFuel
    /\ queries' = queries + 1
    /\ fuel' = fuel + 1
    /\ userInput' = input
    /\ stepsLimit' = StepsLimit(maxSteps, config_.maxSteps)
    /\ executionState_' = "PLANNING"
    /\ messages' = Append(conversationHistory_, UserMessage(input))
    /\ stepsTaken' = 0
    /\ finalAnswer' = ""
    /\ errorCount' = 0
    /\ lastError' = ""
    /\ stepResults' = <<>>
    /\ toolCallHistory' = <<>>
    /\ response' = NoReply
    /\ parsed' = NoParse
    /\ outcome' = NoOutcome
    /\ llmLog' = <<>>
    /\ llmCallsAfterFailure' = 0
    /\ requested' = <<>>
    /\ executed' = <<>>
    /\ exitReason' = "none"
    /\ lastToolMsg' = NoToolMsg
    /\ pc' = "loop"
    /\ UNCHANGED <<promptVars, config_, tools_, conversationHistory_, regLast, mcpVars>>

\* lines 557-590: the result, the persisted history and the returned record
Complete(msgs, answer, reason) ==
    /\ finalAnswer' = FinalResult(answer, stepsLimit)
    /\ messages' = msgs
    /\ conversationHistory_' = PersistedHistory(msgs, config_.maxHistoryMessages)
    /\ outcome' = [kind |-> "record", result |-> FinalResult(answer, stepsLimit),
                   steps_taken |-> stepsTaken, steps_limit |-> stepsLimit]
    /\ exitReason' = reason
    /\ pc' = "returned"

\* an exception leaves processQuery: nothing is persisted
Raise(what) ==
    /\ outcome' = [kind |-> "exception", result |-> what,
                   steps_taken |-> stepsTaken, steps_limit |-> stepsLimit]
    /\ pc' = "thrown"
    /\ UNCHANGED <<conversationHistory_, finalAnswer>>

\* lines 417-437: the loop test holds; the counter, and the recovery prompt
BeginStep ==
    /\ pc = "loop"
    /\ LoopCondition(stepsTaken, stepsLimit, finalAnswer)
    /\ fuel < MaxFuel
    /\ fuel' = fuel + 1
    /\ stepsTaken' = stepsTaken + 1
    /\ IF executionState_ = "ERROR_RECOVERY"
       THEN /\ messages' = Append(messages, UserMessage(RecoveryPrompt(lastError, userInput)))
            /\ executionState_' = "PLANNING"
            /\ stepResults' = <<>>
       ELSE UNCHANGED <<messages, executionState_, stepResults>>
    /\ llmLog' = <<>>
    /\ pc' = "llm"
    /\ UNCHANGED <<promptVars, config_, tools_, conversationHistory_, userInput, stepsLimit,
                   finalAnswer, lastError, errorCount, toolCallHistory, response,
                   parsed, outcome, queries, llmCallsAfterFailure, requested,
                   executed, exitReason, lastToolMsg, regLast, mcpVars>>

\* line 417: the loop test fails at the head of the loop
ExitLoop ==
    /\ pc = "loop"
    /\ ~LoopCondition(stepsTaken, stepsLimit, finalAnswer)
    /\ Complete(messages, finalAnswer, "limit")
    /\ UNCHANGED <<promptVars, config_, tools_, executionState_, userInput, stepsLimit,
                   stepsTaken, lastError, errorCount, stepResults, toolCallHistory,
                   response, parsed, queries, fuel, llmLog, llmCallsAfterFailure,
                   requested, executed, lastToolMsg, regLast, mcpVars>>

\* lines 461-554: the reply is appended, parsed and dispatched
HandleReply(reply) ==
    LET msgs == Append(messages, AssistantMessage(reply.raw))
        p == parseLlmResponse(reply)
    IN  /\ response' = reply
        /\ parsed' = p
        /\ IF p.threw
           THEN /\ Raise("json::type_error")
                /\ messages' = msgs
                /\ UNCHANGED <<requested, exitReason>>
           ELSE IF HasValue(p.answer)
           THEN /\ Complete(msgs, Value(p.answer), "answer")
                /\ UNCHANGED requested
           ELSE IF ShowPlan(config_.silentMode, p)
           THEN /\ Raise("json::type_error")
                /\ messages' = msgs
                /\ UNCHANGED <<requested, exitReason>>
           ELSE IF HasValue(p.toolName)
           THEN /\ requested' = Append(requested, Value(p.toolName))
                /\ IF LoopDetected(toolCallHistory, Value(p.toolName))
                   THEN Complete(msgs, LoopStopAnswer, "loop")
                   ELSE /\ messages' = msgs
                        /\ pc' = "tool"
                        /\ UNCHANGED <<conversationHistory_, finalAnswer, outcome, exitReason>>
           ELSE /\ Complete(msgs, reply.raw, "conversational")
                /\ UNCHANGED requested

LlmCallCounts ==
    /\ llmCallsAfterFailure' =
           IF exitReason = "llm_error" THEN llmCallsAfterFailure + 1
           ELSE llmCallsAfterFailure

\* line 443: the first call returns
CallLlm(reply) ==
    /\ pc = "llm"
    /\ LlmCallCounts
    /\ HandleReply(reply)
    /\ llmLog' = IF pc' = "tool" THEN Append(llmLog, messages) ELSE <<>>
    /\ SystemPromptCalled
    /\ UNCHANGED <<config_, tools_, executionState_, userInput, stepsLimit,
                   stepsTaken, lastError, errorCount, stepResults, toolCallHistory,
                   queries, fuel, executed, lastToolMsg, regLast, mcpVars>>

\* lines 444-449: the first call throws
CallLlmFails ==
    /\ pc = "llm"
    /\ LlmCallCounts
    /\ llmLog' = Append(llmLog, messages)
    /\ pc' = "retry"
    /\ SystemPromptCalled
    /\ UNCHANGED <<agentVars, tools_, userInput, stepsLimit, stepsTaken, messages,
                   finalAnswer, lastError, errorCount, stepResults, toolCallHistory,
                   response, parsed, outcome, queries, fuel, requested, executed,
                   exitReason, lastToolMsg, regLast, mcpVars>>

\* line 451: the retry returns
RetryLlm(reply) ==
    /\ pc = "retry"
    /\ LlmCallCounts
    /\ HandleReply(reply)
    /\ llmLog' = IF pc' = "tool" THEN Append(llmLog, messages) ELSE <<>>
    /\ SystemPromptCalled
    /\ UNCHANGED <<config_, tools_, executionState_, userInput, stepsLimit,
                   stepsTaken, lastError, errorCount, stepResults, toolCallHistory,
                   queries, fuel, executed, lastToolMsg, regLast, mcpVars>>

LlmErrors == {"LLM HTTP request failed: connection error to localhost:8000"}

\* lines 452-457: the retry throws too
RetryLlmFails(what) ==
    /\ pc = "retry"
    /\ llmLog' = Append(llmLog, messages)
    /\ IF OnRetryFailure(what).break
       THEN Complete(messages, OnRetryFailure(what).answer, "llm_error")
       ELSE /\ exitReason' = "llm_error"
            /\ pc' = "loop"
            /\ UNCHANGED <<conversationHistory_, finalAnswer, messages, outcome>>
    /\ SystemPromptCalled
    /\ UNCHANGED <<config_, tools_, executionState_, userInput, stepsLimit,
                   stepsTaken, lastError, errorCount, stepResults, toolCallHistory,
                   response, parsed, queries, fuel, llmCallsAfterFailure, requested,
                   executed, lastToolMsg, regLast, mcpVars>>

\* the tools a plan names, in order
RECURSIVE ToolsOf(_)
ToolsOf(steps) ==
    IF steps = <<>> THEN <<>>
    ELSE (IF steps[1].isObject /\ steps[1].tool.t = "string"
          THEN <<steps[1].tool.v>> ELSE <<>>) \o ToolsOf(Tail(steps))

\* the mutant: the steps of the plan are run after the tool of the reply
DispatchRunsPlan(calls, toolName, plan) ==
    IF HasValue(plan) /\ Value(plan).t = "array"
    THEN Append(calls, toolName) \o ToolsOf(PlanSteps(Value(plan).v))
    ELSE Append(calls, toolName)

\* line 516: the one call of executeTool of a step, for the tool of the
\* reply; the plan of the reply is not read
Dispatch(calls, toolName, plan) == Append(calls, toolName)

\* lines 522-546: the result is recorded, spliced into the conversation and
\* tested for an error
SpliceResult(toolName, toolArgs, toolResult) ==
    LET content == TruncateResult(toolResult.text)
        check == ErrorCheck(toolResult)
    IN  /\ toolCallHistory' = Append(toolCallHistory, <<toolName, toolArgs>>)
        /\ stepResults' = Append(stepResults, toolResult)
        /\ messages' = Append(messages, ToolMessage(toolName, content))
        /\ lastToolMsg' = [dump |-> toolResult.text, content |-> content]
        /\ executed' = Dispatch(executed, toolName, parsed.plan)
        /\ llmCallsAfterFailure' =
               IF exitReason = "llm_error" THEN llmCallsAfterFailure + 1
               ELSE llmCallsAfterFailure
        /\ IF check.threw
           THEN /\ Raise("json::type_error")
                /\ UNCHANGED <<errorCount, lastError, executionState_>>
           ELSE /\ IF check.isError
                   THEN /\ errorCount' = errorCount + 1
                        /\ lastError' = check.error
                        /\ executionState_' = "ERROR_RECOVERY"
                   ELSE UNCHANGED <<errorCount, lastError, executionState_>>
                /\ pc' = "loop"
                /\ UNCHANGED <<conversationHistory_, finalAnswer, outcome>>

IsRemote(tool) == HasValue(tool) /\ HasValue(Value(tool).mcpServer)

\* line 516, for a tool that is local or not found: the registry runs it
ExecuteTool ==
    /\ pc = "tool"
    /\ LET toolName == Value(parsed.toolName)
           tool == LookupTool(tools_, toolName)
           called == IF HasValue(tool) /\ HasValue(Value(tool).callback)
                     THEN CallbackOutcome(Value(Value(tool).callback))
                     ELSE Threw("")
           ran == executeTool(tools_, toolName, called)
       IN  /\ ~IsRemote(tool)
           /\ IF ran.threw
              THEN /\ Raise(ran.what)
                   /\ UNCHANGED <<toolCallHistory, stepResults, messages, lastToolMsg,
                                  executed, llmCallsAfterFailure, errorCount,
                                  lastError, executionState_>>
              ELSE SpliceResult(toolName, Value(parsed.toolArgs), ran.value)
    /\ UNCHANGED <<promptVars, config_, tools_, userInput, stepsLimit, stepsTaken, response,
                   parsed, queries, fuel, llmLog, requested, exitReason, regLast,
                   mcpVars>>

Next ==
    \/ \E input \in UserInputs, maxSteps \in MaxStepsArguments : StartQuery(input, maxSteps)
    \/ BeginStep
    \/ ExitLoop
    \/ \E reply \in Replies : CallLlm(reply)
    \/ CallLlmFails
    \/ \E reply \in Replies : RetryLlm(reply)
    \/ \E what \in LlmErrors : RetryLlmFails(what)
    \/ ExecuteTool

Spec == Init /\ [][Next]_vars

-----------------------------------------------------------------------------
(* Properties of the agent loop *)

InLoop == pc \in {"loop", "llm", "retry", "tool"}

\* C1 (step bound): while the loop of a query runs the step counter is at
\* most the step limit, and a returned record has steps_taken <= steps_limit,
\* whatever max_steps is configured and whatever override is passed.
C1_StepBound ==
    /\ InLoop => stepsTaken <= stepsLimit
    /\ outcome.kind = "record" => outcome.steps_taken <= outcome.steps_limit

\* C2 (termination): a processQuery call that has ended has ended by
\* returning one record {result, steps_taken, steps_limit}, after at most
\* steps_limit iterations, whatever the model replied.
C2_EndsWithRecord ==
    pc \in {"returned", "thrown"} =>
        /\ outcome.kind = "record"
        /\ stepsLimit >= 0 => stepsTaken <= stepsLimit

\* the persisted message that the live message msg must have become
Rewritten(msg) ==
    IF msg.role = "tool"
    THEN [role |-> "user",
          content |-> "[Result from " \o Value(msg.name) \o "]: " \o msg.content,
          name |-> None]
    ELSE msg

\* C3 (history invariant): at every moment, after any number of calls, no
\* message of the persisted history has role tool; and when a call has
\* returned, the persisted history is the tail of the live conversation in
\* which every tool message has become the user message
\* "[Result from <name>]: <content>" and every other message is unchanged.
C3_HistoryInvariant ==
    /\ \A i \in DOMAIN conversationHistory_ : conversationHistory_[i].role # "tool"
    /\ pc = "returned" =>
          LET dropped == Len(messages) - Len(conversationHistory_)
          IN  /\ dropped >= 0
              /\ \A i \in DOMAIN conversationHistory_ :
                    conversationHistory_[i] = Rewritten(messages[i + dropped])

\* a second call has returned and its turn held a tool message
C3_Witness ==
    /\ pc = "returned"
    /\ queries = 2
    /\ \E i \in DOMAIN messages : messages[i].role = "tool"
    /\ \E i \in DOMAIN conversationHistory_ :
          /\ Len(conversationHistory_[i].content) >= 13
          /\ SubSeq(conversationHistory_[i].content, 1, 13) = "[Result from "

\* the consecutive runs of the configured length in the requests of the query
RepeatRuns ==
    {i \in 1..(Len(requested) - config_.maxConsecutiveRepeats + 1) :
        \A k \in i..(i + config_.maxConsecutiveRepeats - 1) : requested[k] = requested[i]}

\* C4 (loop bound): once the model has requested the same tool
\* max_consecutive_repeats times in a row within a query, no tool call is
\* issued after that run, and the query returns the loop-stop answer.
C4_LoopBound ==
    \A i \in RepeatRuns :
        /\ Len(executed) <= i + config_.maxConsecutiveRepeats - 1
        /\ pc = "returned" => outcome.result = "Task stopped due to repeated tool call loop."

\* C5 (truncation): every tool message of the live conversation has at most
\* 20,022 characters; the last tool message built holds the serialized result
\* unchanged when that has at most 20,000 characters, and otherwise its first
\* 10,000 characters, the marker, and its last 5,000 characters.
C5_Truncation ==
    /\ \A i \in DOMAIN messages :
          messages[i].role = "tool" => Len(messages[i].content) <= 20022
    /\ LET dump == lastToolMsg.dump
           n == Len(dump)
       IN  IF n <= 20000 THEN lastToolMsg.content = dump
           ELSE lastToolMsg.content =
                    SubSeq(dump, 1, 10000) \o "\n...[truncated]...\n"
                    \o SubSeq(dump, n - 4999, n)

\* a result of more than 20,000 characters has been spliced in
C5_Witness ==
    /\ Len(lastToolMsg.dump) > 20000
    /\ \E i \in DOMAIN messages :
          messages[i].role = "tool" /\ Len(messages[i].content) = 15019

\* C6 (failures become answers): no processQuery call ends with an
\* exception reaching its caller, whatever the LLM replies and whatever JSON
\* value a tool returns.
C6_NoException == outcome.kind # "exception" /\ pc # "thrown"

\* C7 (LLM retry): a step calls the LLM at most twice, the second time only
\* after the first call raised and with the same messages; when the retry
\* raises too the query has returned "Unable to complete task due to LLM
\* error: <message>", the live conversation is the one that was passed to
\* the LLM (no assistant message was appended), and no LLM or tool call
\* followed.
C7_LlmRetry ==
    /\ Len(llmLog) <= 2
    /\ pc = "llm" => Len(llmLog) = 0
    /\ pc = "retry" => Len(llmLog) = 1 /\ llmLog[1] = messages
    /\ Len(llmLog) = 2 => llmLog[1] = llmLog[2]
    /\ exitReason = "llm_error" =>
          /\ pc = "returned"
          /\ Len(llmLog) = 2
          /\ \E what \in LlmErrors :
                outcome.result = "Unable to complete task due to LLM error: " \o what
          /\ messages = llmLog[2]
          /\ llmCallsAfterFailure = 0

\* both LLM calls of a step after a tool call have raised
C7_Witness ==
    /\ exitReason = "llm_error"
    /\ pc = "returned"
    /\ Len(executed) > 0
    /\ Len(llmLog) = 2

\* C8 (step-limit answer): when a query has returned after steps_limit steps
\* each of which executed a tool (none produced a final answer), the result
\* is "Reached maximum steps limit (N steps)." with N = steps_limit, and
\* steps_taken = steps_limit.
C8_StepLimitAnswer ==
    (pc = "returned" /\ Len(executed) = stepsLimit) =>
        /\ outcome.result =
               "Reached maximum steps limit (" \o ToString(stepsLimit) \o " steps)."
        /\ outcome.steps_taken = stepsLimit
        /\ outcome.steps_limit = stepsLimit

\* a query has used up a limit of at least two steps on tool calls
C8_Witness ==
    /\ pc = "returned"
    /\ stepsLimit >= 2
    /\ Len(executed) = stepsLimit
    /\ exitReason = "limit"

\* the stored history is the last min(M, n) messages of the conversation
\* msgs, tool messages in their stored form, in the same order (all n of
\* them when M = 0)
IsTrimmed(history, msgs, M) ==
    LET n == Len(msgs)
        k == IF M > 0 /\ n > M THEN M ELSE n
    IN  /\ M > 0 => Len(history) <= M
        /\ Len(history) = k
        /\ \A i \in 1..k : history[i] = PersistMessage(msgs[n - k + i])

\* a query that has just started holds the stored history followed by the
\* new user message
StartsFromHistory ==
    (pc = "loop" /\ stepsTaken = 0) =>
        messages = conversationHistory_ \o <<UserMessage(userInput)>>

\* C16 (history trimming): after any processQuery call, the stored history
\* has at most max_history_messages = M > 0 messages and is the last
\* min(M, n) messages of the conversation of that call, in order; with M = 0
\* nothing is discarded; the next call starts with this stored history
\* followed by its user message.
C16_HistoryTrimming ==
    /\ pc \in {"returned", "thrown"} =>
           IsTrimmed(conversationHistory_, messages, config_.maxHistoryMessages)
    /\ StartsFromHistory

\* the same after the processQuery calls that return
C16_ReturnedTrimmed ==
    /\ pc = "returned" =>
           IsTrimmed(conversationHistory_, messages, config_.maxHistoryMessages)
    /\ StartsFromHistory

\* a second call has returned with more messages than the ceiling of 3
C16_Trimmed ==
    /\ pc = "returned"
    /\ queries = 2
    /\ config_.maxHistoryMessages = 3
    /\ Len(messages) > 3
    /\ Len(conversationHistory_) = 3

-----------------------------------------------------------------------------
(* The tool registry, operation by operation (tool_registry.cpp) *)

RegistryNames == {"echo", "Echo", "mcp_srv_echo", "mcp_b_Echo"}

\* the names a caller asks for
RegistryQueries == {"echo", "ECHO", "srv_echo", "add", ""}
\* the descriptors a caller registers: with a callback that returns, one
\* that throws a std::runtime_error, one that throws an int, and none
RegistryInfos ==
    {LocalTool(n, "Echo back the message", "cb_echo") : n \in RegistryNames}
    \cup {LocalTool(n, "Another echo", "cb_throw") : n \in RegistryNames}
    \cup {LocalTool(n, "Throws", "cb_throw_int") : n \in RegistryNames}
    \cup {ToolInfo(n, "No callback", <<>>, None, None, None) : n \in RegistryNames}

RegOp(op, info, result) ==
    [op |-> op, info |-> info, threw |-> result.threw, what |-> result.what,
     returned |-> "", called |-> "", value |-> ErrorData(""), before |-> tools_]

\* an agent whose registry is still empty
InitReg ==
    /\ config_ = AgentConfig(MaxSteps, 0, 4)
    /\ tools_ = EmptyRegistry
    /\ conversationHistory_ = <<>>
    /\ executionState_ = "PLANNING"
    /\ mcpClients_ = <<>>
    /\ mcpServerConfigs_ = <<>>
    /\ procs = <<>>
    /\ regLast = NoRegOp
    /\ mcpLast = NoMcpCall
    /\ client = NewClient
    /\ wire = <<>>
    /\ clientLast = NoClientOp
    /\ cachedSystemPrompt_ = NoPrompt
    /\ systemPromptDirty_ = TRUE
    /\ QueryIdle

\* ToolRegistry::registerTool(ToolInfo)
RegisterTool(info) ==
    LET result == registerTool(tools_, info)
    IN  /\ tools_' = result.tools
        /\ regLast' = RegOp("register", info, result)
        /\ UNCHANGED <<promptVars, agentVars, queryVars, obsVars, mcpVars>>

\* ToolRegistry::removeTool
RemoveTool(name) ==
    /\ tools_' = removeTool(tools_, name)
    /\ regLast' = RegOp("remove", LocalTool(name, "", ""),
                        [threw |-> FALSE, what |-> ""])
    /\ UNCHANGED <<promptVars, agentVars, queryVars, obsVars, mcpVars>>

\* ToolRegistry::clear
Clear ==
    /\ tools_' = EmptyRegistry
    /\ regLast' = RegOp("clear", LocalTool("", "", ""), [threw |-> FALSE, what |-> ""])
    /\ UNCHANGED <<promptVars, agentVars, queryVars, obsVars, mcpVars>>

\* ToolRegistry::resolveName
ResolveName(name) ==
    /\ regLast' = [RegOp("resolve", LocalTool(name, "", ""), [threw |-> FALSE, what |-> ""])
                       EXCEPT !.returned = resolveName(tools_, name)]
    /\ UNCHANGED <<promptVars, agentVars, tools_, queryVars, obsVars, mcpVars>>

\* ToolRegistry::executeTool, with the callback it calls
ExecuteRegistered(name) ==
    LET tool == LookupTool(tools_, name)
        runs == HasValue(tool) /\ HasValue(Value(tool).callback)
        called == IF runs THEN CallbackOutcome(Value(Value(tool).callback)) ELSE Threw("")
        ran == executeTool(tools_, name, called)
    IN  /\ regLast' = [RegOp("execute", LocalTool(name, "", ""), ran)
                           EXCEPT !.returned = IF HasValue(tool) THEN Value(tool).name ELSE "",
                                  !.called = IF runs THEN Value(Value(tool).callback) ELSE "",
                                  !.value = ran.value]
        /\ UNCHANGED <<promptVars, agentVars, tools_, queryVars, obsVars, mcpVars>>

NextReg ==
    \/ \E name \in RegistryQueries : ExecuteRegistered(name)
    \/ \E info \in RegistryInfos : RegisterTool(info)
    \/ \E name \in RegistryNames : RemoveTool(name)
    \/ Clear
    \/ \E name \in RegistryQueries : ResolveName(name)

SpecReg == InitReg /\ [][NextReg]_vars

\* C10 (registry uniqueness): the descriptors of the registry have pairwise
\* different names; a registerTool of a name that is present throws "Tool
\* already registered: <name>", one of an absent name does not; and after the
\* failure the registry has the size it had and still holds the descriptor
\* (description, parameters, callback) that was registered under the name.
C10_RegistryUniqueness ==
    /\ \A a, b \in DOMAIN tools_ : tools_[a].name = tools_[b].name => a = b
    /\ Cardinality({tools_[n].name : n \in DOMAIN tools_}) = Cardinality(DOMAIN tools_)
    /\ regLast.op = "register" =>
          LET name == regLast.info.name
              before == regLast.before
          IN  /\ regLast.threw <=> name \in DOMAIN before
              /\ regLast.threw =>
                    /\ regLast.what = "Tool already registered: " \o name
                    /\ Cardinality(DOMAIN tools_) = Cardinality(DOMAIN before)
                    /\ name \in DOMAIN tools_
                    /\ tools_[name].description = before[name].description
                    /\ tools_[name].parameters = before[name].parameters
                    /\ tools_[name].callback = before[name].callback
                    /\ tools_ = before

\* a registration of a different descriptor under a registered name has failed
C10_Witness ==
    /\ regLast.op = "register"
    /\ regLast.threw
    /\ Cardinality(DOMAIN tools_) >= 2
    /\ regLast.info # tools_[regLast.info.name]

\* the registered names that match a query in the first stage (the query,
\* lowered, after an underscore at the end of the lowered name) and in the
\* second (equal when lowered)
SuffixMatches(reg, q) ==
    {n \in DOMAIN reg :
        \E k \in 1..Len(n) : /\ toLower(SubSeq(n, k, Len(n))) = "_" \o toLower(q)}
NameMatches(reg, q) == {n \in DOMAIN reg : toLower(n) = toLower(q)}

\* C11 (name resolution safety): resolveName returns the empty string or a
\* name that is registered and matches the query; when a stage has more
\* than one match and the other stage has no unique match it returns the
\* empty string; a stage with exactly one match decides, the suffix stage
\* first.
C11_ResolveSafety ==
    regLast.op = "resolve" =>
        LET q == regLast.info.name
            r == regLast.returned
            s1 == SuffixMatches(regLast.before, q)
            s2 == NameMatches(regLast.before, q)
        IN  /\ tools_ = regLast.before
            /\ r = "" \/ r \in DOMAIN tools_
            /\ r # "" => r \in s1 \cup s2
            /\ (Cardinality(s1) > 1 /\ Cardinality(s2) # 1) => r = ""
            /\ (Cardinality(s2) > 1 /\ Cardinality(s1) # 1) => r = ""
            /\ Cardinality(s1) = 1 => r \in s1
            /\ (Cardinality(s1) # 1 /\ Cardinality(s2) = 1) => r \in s2

\* an ambiguous query has been resolved to nothing
C11_Witness ==
    /\ regLast.op = "resolve"
    /\ regLast.returned = ""
    /\ Cardinality(SuffixMatches(regLast.before, regLast.info.name)) = 2
    /\ Cardinality(NameMatches(regLast.before, regLast.info.name)) = 2

\* the one element of a set that has one
TheOne(S) == CHOOSE n \in S : TRUE

\* C34 (resolution algorithm): resolveName(Q) is the one registered name
\* that ends, lowered, with "_" and Q lowered when there is exactly one; else
\* the one registered name that equals Q when both are lowered when there
\* is exactly one; else the empty string.  So a unique suffix match wins
\* over a name equal to Q, and an ambiguous suffix stage leaves the decision
\* to the second stage.
C34_Resolution ==
    regLast.op = "resolve" =>
        LET s1 == SuffixMatches(regLast.before, regLast.info.name)
            s2 == NameMatches(regLast.before, regLast.info.name)
        IN  regLast.returned =
                IF Cardinality(s1) = 1 THEN TheOne(s1)
                ELSE IF Cardinality(s2) = 1 THEN TheOne(s2)
                ELSE ""

\* a query with two suffix matches has been resolved by the second stage
C34_Witness ==
    /\ regLast.op = "resolve"
    /\ Cardinality(SuffixMatches(regLast.before, regLast.info.name)) = 2
    /\ Cardinality(NameMatches(regLast.before, regLast.info.name)) = 1
    /\ regLast.returned \in NameMatches(regLast.before, regLast.info.name)
    /\ regLast.returned # regLast.info.name

\* a unique suffix match has won over a registered name equal to the query
C34_SuffixWins ==
    /\ regLast.op = "resolve"
    /\ regLast.info.name \in DOMAIN regLast.before
    /\ regLast.returned = "mcp_srv_echo"
    /\ regLast.info.name = "echo"

\* the error object {status: "error", error: msg}
IsErrorShape(v, msg) ==
    /\ v.isObject
    /\ v.status = [t |-> "string", v |-> "error"]
    /\ v.error = [t |-> "string", v |-> msg]

\* C12 (execute never raises): executeTool gives its caller a value and no
\* exception; a registered name is run under that name, and fuzzy resolution
\* is used only for a name that is not registered; when the callback throws
\* the value is {status: "error", error: <message>}; a name that is neither
\* registered nor uniquely resolvable gives the same shape with the message
\* "Tool '<name>' not found", and no callback is called.
C12_ExecuteNeverRaises ==
    regLast.op = "execute" =>
        LET name == regLast.info.name
            reg == regLast.before
            s1 == SuffixMatches(reg, name)
            s2 == NameMatches(reg, name)
            used == regLast.returned
        IN  /\ ~regLast.threw
            /\ name \in DOMAIN reg => used = name
            /\ (name \notin DOMAIN reg /\ used # "") =>
                   /\ used \in s1 \cup s2
                   /\ Cardinality(s1) = 1 \/ Cardinality(s2) = 1
            /\ (name \notin DOMAIN reg /\ Cardinality(s1) # 1 /\ Cardinality(s2) # 1) =>
                   /\ used = ""
                   /\ regLast.called = ""
                   /\ IsErrorShape(regLast.value, "Tool '" \o name \o "' not found")
            /\ (regLast.called # "" /\ CallbackOutcome(regLast.called).threw) =>
                   \E msg \in {"Tool execution failed: " \o CallbackOutcome(regLast.called).what} :
                       IsErrorShape(regLast.value, msg)
            /\ (regLast.called # "" /\ ~CallbackOutcome(regLast.called).threw) =>
                   regLast.value = CallbackOutcome(regLast.called).value

\* the same statement for the calls that do not end with an exception
C12_ExceptRaised == (regLast.op = "execute" /\ ~regLast.threw) => C12_ExecuteNeverRaises

-----------------------------------------------------------------------------
(* The response parser on its own (json_utils.cpp): one call of            *)
(* parseLlmResponse on a text made of a JSON or near-JSON body, wrapped or *)
(* not in a code block, between some prose.                                *)

MalformedBodies == {
    "{\"thought\":\"a\",\"answer\":\"42\",}",
    "{\"thought\":1,\"answer\":\"x\", }",
    "{broken \"thought\": \"t\", \"tool\": \"echo\", \"tool_args\": {\"m\":\"x\"}}",
    "{broken \"tool\": \"echo\"}",
    "{oops" }

ParserBodies == {o.text : o \in JsonObjects} \cup MalformedBodies

Wrappers == {"none", "fence_json", "fence", "tick", "xml"}

Wrap(kind, body) ==
    CASE kind = "none" -> body
      [] kind = "fence_json" -> Fence \o "json\n" \o body \o "\n" \o Fence
      [] kind = "fence" -> Fence \o "\n" \o body \o "\n" \o Fence
      [] kind = "tick" -> Tick \o "json " \o body \o Tick
      [] kind = "xml" -> "<json>" \o body \o "</json>"

Prefixes == {"", "  ", "Here's the result:\n", "{x} "}
Suffixes == {"", "\nThat's it."}

\* a reply text with what json::parse makes of it once trimmed
AsReply(text) ==
    [raw |-> text, json |-> JsonParse(Trim(text)).json, j |-> JsonParse(Trim(text)).j]

ParserInputs ==
    {AsReply(pre \o Wrap(w, b) \o suf) :
        pre \in Prefixes, w \in Wrappers, b \in ParserBodies, suf \in Suffixes}
    \cup {AsReply(""), AsReply("  \n\t "), AsReply("Hello, I'm an assistant!")}

\* parseLlmResponse(response)
ParseReply(reply) ==
    /\ pc = "idle"
    /\ response = NoReply
    /\ response' = reply
    /\ parsed' = parseLlmResponse(reply)
    /\ UNCHANGED <<promptVars, agentVars, tools_, pc, userInput, stepsLimit, stepsTaken, messages,
                   finalAnswer, lastError, errorCount, stepResults, toolCallHistory,
                   outcome, obsVars, regLast, mcpVars>>

NextParse == \E reply \in ParserInputs : ParseReply(reply)

InitParse == InitReg

SpecParse == InitParse /\ [][NextParse]_vars

\* C13 (parser totality): parseLlmResponse returns a record and throws
\* nothing, whatever the text, also when the text is a JSON object whose
\* thought, goal or tool member is not a string.
C13_ParserTotality == ~parsed.threw

\* an object whose thought, goal or tool member is not a string
IllTyped(j) ==
    \/ j.thought.t \notin {"absent", "string"}
    \/ j.goal.t \notin {"absent", "string"}
    \/ j.tool.t \notin {"absent", "string"}

\* the texts that hold such an object, as they are or once their trailing
\* commas are removed
HoldsIllTyped(text) ==
    \E o \in JsonObjects :
        /\ IllTyped(o.j)
        /\ \E i \in 1..Len(text) : Sub(text, i, i + Len(o.text) - 1) = o.text

\* parseLlmResponse throws nothing on the texts that hold no object with an
\* ill-typed thought, goal or tool member
C13_WellTypedTotal ==
    ~HoldsIllTyped(RemoveTrailingCommas(response.raw)) => ~parsed.threw

\* C14 (well-formed JSON): a text that is the JSON object {"thought": T,
\* "answer": A} with strings T and A gives thought = T and answer = A and no
\* tool name; a text that is a JSON object with a string tool and no
\* tool_args gives that tool name and the arguments {}.
C14_WellFormed ==
    response.json = "object" =>
        LET j == response.j
        IN  /\ (/\ j.thought.t = "string" /\ j.answer.t = "string"
                /\ j.goal.t = "absent" /\ j.tool.t = "absent"
                /\ j.tool_args.t = "absent" /\ j.plan.t = "absent") =>
                   /\ ~parsed.threw
                   /\ parsed.thought = j.thought.v
                   /\ parsed.answer = <<j.answer.v>>
                   /\ parsed.toolName = <<>>
            /\ (/\ j.tool.t = "string" /\ j.tool_args.t = "absent"
                /\ j.thought.t \in {"absent", "string"}
                /\ j.goal.t \in {"absent", "string"}) =>
                   /\ ~parsed.threw
                   /\ parsed.toolName = <<j.tool.v>>
                   /\ parsed.toolArgs = <<[t |-> "object", v |-> "{}"]>>

\* an object with a tool and no arguments has been parsed, between white space
C14_Witness ==
    /\ response.json = "object"
    /\ response.j.tool.t = "string"
    /\ response.j.tool_args.t = "absent"
    /\ Len(response.raw) > Len(Trim(response.raw))
    /\ parsed.toolName # <<>>

\* the replies that are prose, then a code block tagged json that holds a
\* JSON object, and the object they hold
FencedProse(o) == "Here's the result:\n" \o Fence \o "json\n" \o o.text \o "\n" \o Fence

\* C15 (fenced code block): for a reply that is prose followed by a code
\* block tagged json whose body is a JSON object with string members, the
\* parser returns the members of that object (for {"thought":"a",
\* "answer":"42"}: thought "a" and answer "42"), not the reply text.
C15_FencedBlock ==
    \A o \in JsonObjects :
        (response.raw = FencedProse(o) /\ ~IllTyped(o.j)) =>
            /\ parsed = LiftFields(o.j)
            /\ parsed.answer # Some(response.raw)

-----------------------------------------------------------------------------
(* Child processes and the stdio transport (mcp_client.cpp, POSIX build).  *)
(* procs[pid] is "alive", "deaf" (alive, its end of the stdin pipe closed), *)
(* "dead" (exited, not yet waited for) or "reaped".                         *)

Exited(ps, pid) == ps[pid] \in {"dead", "reaped"}

\* waitpid(pid, &status, WNOHANG) collects a child that has exited
Reap(ps, pid) == IF ps[pid] = "dead" THEN [ps EXCEPT ![pid] = "reaped"] ELSE ps

\* Impl::isAlive
isAlive(t, ps) ==
    IF ~t.running \/ t.pid <= 0 THEN [alive |-> FALSE, procs |-> ps]
    ELSE [alive |-> ~Exited(ps, t.pid), procs |-> Reap(ps, t.pid)]

\* what a running child does with SIGTERM within the 5 s of the wait
TermReactions == {"exits", "ignores"}

\* lines 230-242 of Impl::cleanup, in order: kill(SIGTERM), the waitpid loop,
\* and kill(SIGKILL) with a blocking waitpid when the child is still there
Terminate(ps, pid, reaction) ==
    IF Exited(ps, pid) \/ reaction = "exits"
    THEN <<"SIGTERM", "waitpid">>
    ELSE <<"SIGTERM", "waitpid", "SIGKILL", "waitpid">>

\* the mutant: the descriptors are closed and the child is left alone
cleanupStepsLeavesChild(t, ps, reaction) ==
    [transport |-> [t EXCEPT !.stdinFd = NoFd, !.stdoutFd = NoFd, !.running = FALSE],
     procs |-> ps,
     steps |-> (IF t.stdinFd >= 0 THEN <<"close stdin">> ELSE <<>>)
               \o (IF t.stdoutFd >= 0 THEN <<"close stdout">> ELSE <<>>)]

\* Impl::cleanup, with what it does in order
cleanupSteps(t, ps, reaction) ==
    [transport |-> [t EXCEPT !.stdinFd = NoFd, !.stdoutFd = NoFd,
                             !.running = IF t.running /\ t.pid > 0 THEN FALSE ELSE @],
     procs |-> IF t.running /\ t.pid > 0 THEN [ps EXCEPT ![t.pid] = "reaped"] ELSE ps,
     steps |-> (IF t.stdinFd >= 0 THEN <<"close stdin">> ELSE <<>>)
               \o (IF t.stdoutFd >= 0 THEN <<"close stdout">> ELSE <<>>)
               \o (IF t.running /\ t.pid > 0 THEN Terminate(ps, t.pid, reaction)
                   ELSE <<>>)]

\* Impl::cleanup: the transport and the children after it, which are the
\* same whichever signal ended the child
cleanup(t, ps) ==
    [transport |-> cleanupSteps(t, ps, "exits").transport,
     procs |-> cleanupSteps(t, ps, "exits").procs]

\* what fork and the first 100 ms of the child may be
LaunchOutcomes == {"starts", "crashes", "fork_fails"}

\* the descriptors pipe() gives the parent for the child numbered pid
StdinFdOf(pid) == 2 * pid + 2
StdoutFdOf(pid) == 2 * pid + 1

\* Impl::launch
launch(t, ps, how) ==
    IF how = "fork_fails"
    THEN [ok |-> FALSE, transport |-> [t EXCEPT !.pid = NoPid], procs |-> ps]
    ELSE [ok |-> TRUE,
          transport |-> [t EXCEPT !.pid = Len(ps) + 1,
                                  !.stdinFd = StdinFdOf(Len(ps) + 1),
                                  !.stdoutFd = StdoutFdOf(Len(ps) + 1),
                                  !.running = TRUE],
          procs |-> Append(ps, IF how = "crashes" THEN "dead" ELSE "alive")]

\* lines 403-408 of StdioTransport::connect: the liveness test after 100 ms
CheckLaunched(l, live) ==
    IF live.alive THEN [ok |-> TRUE, transport |-> l.transport, procs |-> live.procs]
    ELSE [ok |-> FALSE] @@ cleanup(l.transport, live.procs)

\* lines 397-399 of StdioTransport::connect
Launched(l) == IF ~l.ok THEN l ELSE CheckLaunched(l, isAlive(l.transport, l.procs))

\* StdioTransport::connect
StdioTransport_connect(t, ps, how) ==
    IF t.running THEN [ok |-> TRUE, transport |-> t, procs |-> ps]
    ELSE Launched(launch(t, ps, how))

\* what the child does with one request that reaches it
ServerBehaviours == {"result", "rpc_error", "bad_error", "timeout", "exits", "malformed"}

\* what the child does with a request sent to it directly: "closes" is a
\* child that closes its standard output, or writes an empty line, and
\* keeps running
SendBehaviours == ServerBehaviours \cup {"closes"}

\* the outcome of a sendRequest: sent is 1 when the request was written, and
\* id is then the id it carried
Exchange(t, ps, kind, what, sent, id) ==
    [transport |-> t, procs |-> ps, kind |-> kind, what |-> what, sent |-> sent,
     id |-> id]

\* the mutant: the id is not advanced
BuiltSameId(t) == t

\* lines 425-430: the request takes the id requestId_++
Built(t) == [t EXCEPT !.requestId_ = @ + 1]

\* lines 420-458 of StdioTransport::sendRequest, with a 30 s timeout.  The
\* request is written to the pipe after the liveness test; a write to a pipe
\* that has no reader left raises SIGPIPE, which nothing in the program
\* handles or ignores.
Request(t, ps, live, b) ==
    IF ~live.alive
    THEN Exchange([t EXCEPT !.running = FALSE], live.procs, "runtime_error",
                  "MCP server process died", 0, NoId)
    ELSE IF ps[t.pid] = "deaf"
    THEN Exchange(Built(t), ps, "killed", "SIGPIPE", 0, NoId)
    ELSE IF b = "timeout"
    THEN Exchange(Built(t), ps, "runtime_error", "MCP server read timeout after 30s",
                  1, t.requestId_)
    ELSE IF b = "exits"
    THEN Exchange([Built(t) EXCEPT !.running = FALSE], [ps EXCEPT ![t.pid] = "reaped"],
                  "runtime_error",
                  "MCP server process died while waiting for response", 1, t.requestId_)
    ELSE IF b = "closes"
    THEN Exchange(Built(t), ps, "runtime_error", "Server closed connection",
                  1, t.requestId_)
    ELSE IF b = "malformed"
    THEN Exchange(Built(t), ps, "runtime_error",
                  "Invalid JSON response from MCP server: parse error", 1, t.requestId_)
    ELSE Exchange(Built(t), ps, "response", b, 1, t.requestId_)

\* the mutant: the test of running is left out
sendRequestUnchecked(t, ps, b) == Request(t, ps, isAlive(t, ps), b)

\* StdioTransport::sendRequest
sendRequest(t, ps, b) ==
    IF ~t.running
    THEN Exchange(t, ps, "runtime_error", "Transport not connected", 0, NoId)
    ELSE Request(t, ps, isAlive(t, ps), b)

\* MCPClient::isConnected
isConnected(t, ps) == isAlive(t, ps)

\* the value of a successful tools/call
RemoteResult == ToolValue(TRUE, Absent, Absent, "{\"content\":[]}")

CallResult(x, kind, what, value) ==
    [transport |-> x.transport, procs |-> x.procs, kind |-> kind, what |-> what,
     sent |-> x.sent, id |-> x.id, value |-> value]

\* the mutant: a JSON-RPC error is thrown as a std::runtime_error
ToolResponseThrows(x) ==
    IF x.kind # "response" THEN CallResult(x, x.kind, x.what, ErrorData(""))
    ELSE IF x.what \in {"rpc_error", "bad_error"}
    THEN CallResult(x, "runtime_error", "tool failed", ErrorData(""))
    ELSE CallResult(x, "value", "", RemoteResult)

\* lines 608-619 of MCPClient::callTool: the response is read
ToolResponse(x) ==
    IF x.kind # "response" THEN CallResult(x, x.kind, x.what, ErrorData(""))
    ELSE IF x.what = "rpc_error" THEN CallResult(x, "value", "", ErrorData("tool failed"))
    ELSE IF x.what = "bad_error"
    THEN CallResult(x, "type_error", "json::type_error", ErrorData(""))
    ELSE CallResult(x, "value", "", RemoteResult)

\* lines 594-606 of MCPClient::callTool
CallToolOn(name, t, conn, b) ==
    IF ~conn.alive
    THEN [transport |-> t, procs |-> conn.procs, kind |-> "runtime_error",
          what |-> "Not connected to MCP server '" \o name \o "'", sent |-> 0,
          id |-> NoId, value |-> ErrorData("")]
    ELSE ToolResponse(sendRequest(t, conn.procs, b))

\* MCPClient::callTool
callTool(name, t, ps, b) == CallToolOn(name, t, isConnected(t, ps), b)

\* MCPClient::disconnect, which ~MCPClient runs too
disconnect(t, ps) == cleanup(t, ps)

\* what the child does with the initialize request
InitBehaviours == {"result", "rpc_error", "timeout"}

ClientConnect(ok, killed, spawned) == [ok |-> ok, killed |-> killed, spawned |-> spawned]

\* the initialize request of a connect: whether it was written and its id,
\* and whether the catch of line 548 ran disconnect()
Asked(x, caught) ==
    [sent |-> x.sent, id |-> x.id, caught |-> caught, kind |-> x.kind, what |-> x.what]

\* lines 533-552 of MCPClient::connect: the answer to initialize
Initialized(x, spawned) ==
    IF x.kind = "killed"
    THEN ClientConnect(FALSE, TRUE, spawned) @@ [transport |-> x.transport, procs |-> x.procs]
         @@ Asked(x, FALSE)
    ELSE IF x.kind = "runtime_error" \/ x.what = "bad_error"
    THEN ClientConnect(FALSE, FALSE, spawned) @@ disconnect(x.transport, x.procs)
         @@ Asked(x, TRUE)
    ELSE ClientConnect(x.what = "result", FALSE, spawned)
         @@ [transport |-> x.transport, procs |-> x.procs] @@ Asked(x, FALSE)

\* lines 512-531 of MCPClient::connect
Initialize(c, spawned, b) ==
    IF ~c.ok
    THEN ClientConnect(FALSE, FALSE, spawned) @@ [transport |-> c.transport, procs |-> c.procs]
         @@ [sent |-> 0, id |-> NoId, caught |-> FALSE, kind |-> "none", what |-> ""]
    ELSE Initialized(sendRequest(c.transport, c.procs, b), spawned)

\* MCPClient::connect: the transport, then the initialize request
MCPClient_connect(t, ps, how, b) ==
    Initialize(StdioTransport_connect(t, ps, how), IF how = "fork_fails" THEN 0 ELSE 1, b)

-----------------------------------------------------------------------------
(* The agent's MCP servers (agent.cpp) *)

\* std::map::erase
Erase(m, key) == [k \in DOMAIN m \ {key} |-> m[k]]

\* the mutant: the old client stays in the map
DropClientKeeps(clients, ps, name) == [clients |-> clients, procs |-> ps]

\* the client of a server leaves the map: ~MCPClient disconnects
DropClient(clients, ps, name) ==
    IF name \in DOMAIN clients
    THEN [clients |-> Erase(clients, name), procs |-> disconnect(clients[name], ps).procs]
    ELSE [clients |-> clients, procs |-> ps]

Reconnect(ok, killed, clients, ps, spawned, attempts) ==
    [ok |-> ok, killed |-> killed, clients |-> clients, procs |-> ps,
     spawned |-> spawned, attempts |-> attempts]

\* the mutant: the client that failed to connect is dropped as it is
ReconnectedLeaks(clients, name, c) ==
    IF c.killed THEN Reconnect(FALSE, TRUE, clients, c.procs, c.spawned, 1)
    ELSE IF ~c.ok THEN Reconnect(FALSE, FALSE, clients, c.procs, c.spawned, 1)
    ELSE Reconnect(TRUE, FALSE, Emplace(clients, name, c.transport), c.procs,
                   c.spawned, 1)

\* lines 354-360 of reconnectMcpServer: the new client has connected or not
Reconnected(clients, name, c) ==
    IF c.killed THEN Reconnect(FALSE, TRUE, clients, c.procs, c.spawned, 1)
    ELSE IF ~c.ok
    THEN Reconnect(FALSE, FALSE, clients, disconnect(c.transport, c.procs).procs,
                   c.spawned, 1)
    ELSE Reconnect(TRUE, FALSE, Emplace(clients, name, c.transport), c.procs,
                   c.spawned, 1)

\* lines 349-353 of reconnectMcpServer: the old client is dropped, a new one made
Rebuild(dropped, name, how, b) ==
    Reconnected(dropped.clients, name,
                MCPClient_connect(NewTransport, dropped.procs, how, b))

\* Agent::reconnectMcpServer
reconnectMcpServer(clients, configs, ps, name, how, b) ==
    IF name \notin DOMAIN configs THEN Reconnect(FALSE, FALSE, clients, ps, 0, 0)
    ELSE Rebuild(DropClient(clients, ps, name), name, how, b)

McpServers == {"srv"}
SpawnConfig == [command |-> "server"]

\* the tools a server lists
ListedTools == {<<"echo">>, <<"echo", "add">>}
ListBehaviours == {"result", "rpc_error", "timeout"}

\* the mutant: the tool keeps the name of its schema
RemoteToolUnprefixed(serverName, name) ==
    ToolInfo(name, "[MCP:" \o serverName \o "] " \o name,
             <<>>, Some("callMcpTool"), Some(serverName), Some(name))

\* MCPToolSchema::toToolInfo with the callback connectMcpServer installs
RemoteTool(serverName, name) ==
    ToolInfo("mcp_" \o serverName \o "_" \o name, "[MCP:" \o serverName \o "] " \o name,
             <<>>, Some("callMcpTool"), Some(serverName), Some(name))

\* the registration loop of connectMcpServer: duplicates are skipped
RECURSIVE RegisterListed(_, _, _)
RegisterListed(reg, serverName, listed) ==
    IF listed = <<>> THEN reg
    ELSE RegisterListed(registerTool(reg, RemoteTool(serverName, Head(listed))).tools,
                        serverName, Tail(listed))

\* the agent process is running and in no call
AgentRuns == pc = "idle"

\* lines 279-304 of connectMcpServer: the tools are listed and registered,
\* the client is stored
Listed(name, x, listed) ==
    IF x.kind = "killed"
    THEN /\ pc' = "killed"
         /\ procs' = x.procs
         /\ UNCHANGED <<tools_, mcpClients_, promptVars>>
    ELSE IF x.kind = "runtime_error"
    THEN /\ procs' = disconnect(x.transport, x.procs).procs
         /\ UNCHANGED <<pc, tools_, mcpClients_, promptVars>>
    ELSE /\ tools_' = RegisterListed(tools_, name,
                                     IF x.what = "result" THEN listed ELSE <<>>)
         /\ systemPromptDirty_' = TRUE
         /\ UNCHANGED cachedSystemPrompt_
         /\ IF name \in DOMAIN mcpClients_
            THEN /\ procs' = disconnect(x.transport, x.procs).procs
                 /\ UNCHANGED mcpClients_
            ELSE /\ procs' = x.procs
                 /\ mcpClients_' = Emplace(mcpClients_, name, x.transport)
         /\ UNCHANGED pc

\* lines 270-279 of connectMcpServer: the client has connected or not
Connected(name, c, listB, listed) ==
    IF c.killed
    THEN /\ pc' = "killed"
         /\ procs' = c.procs
         /\ UNCHANGED <<tools_, mcpClients_, mcpServerConfigs_, promptVars>>
    ELSE IF ~c.ok
    THEN /\ procs' = disconnect(c.transport, c.procs).procs
         /\ UNCHANGED <<pc, tools_, mcpClients_, mcpServerConfigs_, promptVars>>
    ELSE /\ mcpServerConfigs_' =
                [n \in DOMAIN mcpServerConfigs_ \cup {name} |->
                    IF n = name THEN SpawnConfig ELSE mcpServerConfigs_[n]]
         /\ Listed(name, sendRequest(c.transport, c.procs, listB), listed)

\* Agent::connectMcpServer
ConnectMcpServer(name, how, initB, listB, listed) ==
    /\ AgentRuns
    /\ Len(procs) < MaxSpawns
    /\ Connected(name, MCPClient_connect(NewTransport, procs, how, initB), listB, listed)
    /\ UNCHANGED <<config_, conversationHistory_, executionState_, userInput,
                   stepsLimit, stepsTaken, messages, finalAnswer, lastError,
                   errorCount, stepResults, toolCallHistory, response, parsed,
                   outcome, obsVars, regLast, clientVars, mcpLast>>

\* Agent::disconnectMcpServer
DisconnectMcpServer(name) ==
    /\ AgentRuns
    /\ name \in DOMAIN mcpClients_
    /\ mcpClients_' = Erase(mcpClients_, name)
    /\ procs' = disconnect(mcpClients_[name], procs).procs
    /\ UNCHANGED <<promptVars, agentVars, tools_, queryVars, obsVars, regLast, clientVars,
                   mcpServerConfigs_, mcpLast>>

\* the loop of disconnectAllMcp: every client of the map is disconnected
RECURSIVE DisconnectEach(_, _, _)
DisconnectEach(clients, names, ps) ==
    IF names = {} THEN ps
    ELSE LET n == CHOOSE x \in names : TRUE
         IN  DisconnectEach(clients, names \ {n}, disconnect(clients[n], ps).procs)

\* the mutant: the map is cleared and the clients are left as they are
disconnectAllMcpForgets(clients, ps) == [clients |-> <<>>, procs |-> ps]

\* Agent::disconnectAllMcp
disconnectAllMcp(clients, ps) ==
    [clients |-> <<>>, procs |-> DisconnectEach(clients, DOMAIN clients, ps)]

\* Agent::disconnectAllMcp, which ~Agent runs too; children is the number of
\* children spawned so far
DisconnectAllMcp ==
    /\ AgentRuns
    /\ mcpClients_' = disconnectAllMcp(mcpClients_, procs).clients
    /\ procs' = disconnectAllMcp(mcpClients_, procs).procs
    /\ mcpLast' = [NoMcpCall EXCEPT !.kind = "disconnected_all", !.children = Len(procs)]
    /\ UNCHANGED <<promptVars, agentVars, tools_, queryVars, obsVars, regLast, clientVars,
                   mcpServerConfigs_>>

\* a child process exits on its own
ChildExit(pid) ==
    /\ pc # "killed"
    /\ procs[pid] \in {"alive", "deaf"}
    /\ procs' = [procs EXCEPT ![pid] = "dead"]
    /\ UNCHANGED <<promptVars, agentVars, tools_, queryVars, obsVars, regLast, clientVars, mcpClients_,
                   mcpServerConfigs_, mcpLast>>

\* a child closes its standard input and goes on running
ChildClosesStdin(pid) ==
    /\ pc # "killed"
    /\ procs[pid] = "alive"
    /\ procs' = [procs EXCEPT ![pid] = "deaf"]
    /\ UNCHANGED <<promptVars, agentVars, tools_, queryVars, obsVars, regLast, clientVars, mcpClients_,
                   mcpServerConfigs_, mcpLast>>

\* the names under which the loop asks for the remote tool
RemoteRequests == {"mcp_srv_echo", "echo"}

\* the descriptor and the server of the remote call in progress
CalledTool == LookupTool(tools_, mcpLast.tool)
CalledServer == Value(Value(CalledTool).mcpServer)

\* the callback returns or throws into ToolRegistry::executeTool (lines
\* 131-135), which gives the loop a value
Outcome(call, tool, called) ==
    [call EXCEPT !.kind = "value", !.raised = called.threw,
                 !.value = RunTool(tool, call.tool, called).value]

NotFoundError(serverName) == ErrorData("MCP server '" \o serverName \o "' not found")

\* where the registry's executeTool returns to: line 516 of processQuery when
\* the loop made the call
Back(call) == IF call.from = "loop" THEN "splice" ELSE "idle"

\* lines 313-321 and 328-330 of callMcpTool: the client is looked for and tested
Enter(call, found, serverName) ==
    IF serverName \notin DOMAIN mcpClients_
    THEN /\ pc' = Back(call)
         /\ mcpLast' = Outcome([call EXCEPT !.entry = "absent"], found,
                               Returned(NotFoundError(serverName)))
         /\ UNCHANGED procs
    ELSE /\ procs' = isConnected(mcpClients_[serverName], procs).procs
         /\ IF isConnected(mcpClients_[serverName], procs).alive
            THEN pc' = "mcp_first" /\ mcpLast' = [call EXCEPT !.entry = "connected"]
            ELSE pc' = "mcp_reconnect" /\ mcpLast' = [call EXCEPT !.entry = "dead"]

\* line 516 of processQuery for a remote tool: the registry finds the
\* descriptor and runs its callback, callMcpTool
Invoke(name, found) ==
    /\ IsRemote(found)
    /\ Enter([NoMcpCall EXCEPT !.tool = name, !.kind = "running"], found,
             Value(Value(found).mcpServer))

ExecuteRemoteTool(name) ==
    /\ AgentRuns
    /\ Len(procs) < MaxSpawns
    /\ \A n \in DOMAIN mcpClients_ : mcpClients_[n].requestId_ < MaxRequests
    /\ Invoke(name, LookupTool(tools_, name))
    /\ UNCHANGED <<promptVars, config_, tools_, conversationHistory_, executionState_, userInput,
                   stepsLimit, stepsTaken, messages, finalAnswer, lastError,
                   errorCount, stepResults, toolCallHistory, response, parsed,
                   outcome, obsVars, regLast, clientVars, mcpClients_, mcpServerConfigs_>>

\* where callMcpTool goes after a callTool: back to the registry with a
\* value or a json::type_error, down with the process, or on
AfterCallTool(r, call, server, onError, errorPrefix) ==
    /\ mcpClients_' = [mcpClients_ EXCEPT ![server] = r.transport]
    /\ procs' = r.procs
    /\ IF r.kind = "value"
       THEN pc' = Back(call) /\ mcpLast' = Outcome(call, CalledTool, Returned(r.value))
       ELSE IF r.kind = "type_error"
       THEN pc' = Back(call) /\ mcpLast' = Outcome(call, CalledTool, Threw(r.what))
       ELSE IF r.kind = "killed"
       THEN pc' = "killed" /\ mcpLast' = [call EXCEPT !.kind = "killed"]
       ELSE IF onError = "reconnect"
       THEN pc' = "mcp_reconnect" /\ mcpLast' = [call EXCEPT !.firstFailed = TRUE]
       ELSE pc' = Back(call)
            /\ mcpLast' = Outcome([call EXCEPT !.failed = "retry"], CalledTool,
                                  Returned(ErrorData(errorPrefix \o r.what)))

\* one more callTool, the tools/call request it got to send, and what the
\* child did with the request
Sent(call, r, b) ==
    [call EXCEPT !.tries = @ + 1, !.calls = @ + r.sent,
                 !.answered = IF r.sent = 1 THEN b ELSE "none"]

CallOn(server, b, onError, errorPrefix) ==
    LET r == callTool(server, mcpClients_[server], procs, b)
    IN  AfterCallTool(r, Sent(mcpLast, r, b), server, onError, errorPrefix)

\* lines 322-327 of callMcpTool: the first attempt
CallMcpToolFirst(b) ==
    /\ pc = "mcp_first"
    /\ CallOn(CalledServer, b, "reconnect", "")
    /\ UNCHANGED <<promptVars, config_, tools_, conversationHistory_, executionState_, userInput,
                   stepsLimit, stepsTaken, messages, finalAnswer, lastError,
                   errorCount, stepResults, toolCallHistory, response, parsed,
                   outcome, obsVars, regLast, clientVars, mcpServerConfigs_>>

ReconnectFailedError(serverName) ==
    ErrorData("MCP server '" \o serverName \o "' disconnected and reconnect failed")

AfterReconnect(re, call, server) ==
    /\ mcpClients_' = re.clients
    /\ procs' = re.procs
    /\ IF re.killed
       THEN pc' = "killed" /\ mcpLast' = [call EXCEPT !.kind = "killed"]
       ELSE IF ~re.ok
       THEN pc' = Back(call)
            /\ mcpLast' = Outcome([call EXCEPT !.failed = "reconnect"], CalledTool,
                                  Returned(ReconnectFailedError(server)))
       ELSE pc' = "mcp_retry" /\ mcpLast' = [call EXCEPT !.reconnected = TRUE]

Counted(call, re) ==
    [call EXCEPT !.spawns = @ + re.spawned, !.reconnects = @ + re.attempts]

ReconnectOn(server, how, b) ==
    LET re == reconnectMcpServer(mcpClients_, mcpServerConfigs_, procs, server, how, b)
    IN  AfterReconnect(re, Counted(mcpLast, re), server)

\* lines 332-335 of callMcpTool: the reconnect
CallMcpToolReconnect(how, b) ==
    /\ pc = "mcp_reconnect"
    /\ ReconnectOn(CalledServer, how, b)
    /\ UNCHANGED <<promptVars, config_, tools_, conversationHistory_, executionState_, userInput,
                   stepsLimit, stepsTaken, messages, finalAnswer, lastError,
                   errorCount, stepResults, toolCallHistory, response, parsed,
                   outcome, obsVars, regLast, clientVars, mcpServerConfigs_>>

\* lines 337-341 of callMcpTool: the retry on the new client
CallMcpToolRetry(b) ==
    /\ pc = "mcp_retry"
    /\ CallOn(CalledServer, b, "return", "MCP tool call failed after reconnect: ")
    /\ UNCHANGED <<promptVars, config_, tools_, conversationHistory_, executionState_, userInput,
                   stepsLimit, stepsTaken, messages, finalAnswer, lastError,
                   errorCount, stepResults, toolCallHistory, response, parsed,
                   outcome, obsVars, regLast, clientVars, mcpServerConfigs_>>

NextMcp ==
    \/ \E name \in McpServers, how \in LaunchOutcomes, initB \in InitBehaviours,
          listB \in ListBehaviours, listed \in ListedTools :
          ConnectMcpServer(name, how, initB, listB, listed)
    \/ \E name \in McpServers : DisconnectMcpServer(name)
    \/ DisconnectAllMcp
    \/ \E pid \in DOMAIN procs : ChildExit(pid)
    \/ \E pid \in DOMAIN procs : ChildClosesStdin(pid)
    \/ \E name \in RemoteRequests : ExecuteRemoteTool(name)
    \/ \E b \in ServerBehaviours : CallMcpToolFirst(b)
    \/ \E how \in LaunchOutcomes, b \in InitBehaviours : CallMcpToolReconnect(how, b)
    \/ \E b \in ServerBehaviours : CallMcpToolRetry(b)

\* an agent with no server connected yet
InitMcp == InitReg

SpecMcp == InitMcp /\ [][NextMcp]_vars

-----------------------------------------------------------------------------
(* The loop of processQuery with remote tools: the tool of line 516 is a   *)
(* remote one, and its result is handled by lines 522-546.                 *)

\* line 516 of processQuery: the registry finds a remote descriptor and runs
\* its callback, callMcpTool
InvokeInLoop(name, found) ==
    /\ IsRemote(found)
    /\ Enter([NoMcpCall EXCEPT !.tool = name, !.from = "loop", !.kind = "running"],
             found, Value(Value(found).mcpServer))

ExecuteRemoteInLoop ==
    /\ pc = "tool"
    /\ Len(procs) < MaxSpawns
    /\ \A n \in DOMAIN mcpClients_ : mcpClients_[n].requestId_ < MaxRequests
    /\ InvokeInLoop(Value(parsed.toolName), LookupTool(tools_, Value(parsed.toolName)))
    /\ UNCHANGED <<promptVars, config_, tools_, conversationHistory_, executionState_, userInput,
                   stepsLimit, stepsTaken, messages, finalAnswer, lastError,
                   errorCount, stepResults, toolCallHistory, response, parsed,
                   outcome, obsVars, regLast, clientVars, mcpClients_, mcpServerConfigs_>>

\* lines 518-546 of processQuery with the value executeTool gave for the
\* remote tool
SpliceRemote ==
    /\ pc = "splice"
    /\ SpliceResult(mcpLast.tool, Value(parsed.toolArgs), mcpLast.value)
    /\ UNCHANGED <<promptVars, config_, tools_, userInput, stepsLimit, stepsTaken, response,
                   parsed, queries, fuel, llmLog, requested, exitReason, regLast,
                   mcpVars>>

\* what the model answers: a call of the remote tool under either name, or
\* the final answer
RemoteReplies ==
    {ToolReply(n) : n \in RemoteRequests}
    \cup {ObjectReply("{\"thought\":\"t\",\"goal\":\"g\",\"answer\":\"done\"}",
                      [NoFields EXCEPT !.thought = JString("t"), !.goal = JString("g"),
                                       !.answer = JString("done")])}

\* the maxSteps argument of the query: room for a tool call and the step
\* after it
RemoteStepLimits == {2}

NextRemote ==
    \/ \E name \in McpServers, how \in LaunchOutcomes, initB \in InitBehaviours,
          listB \in ListBehaviours, listed \in ListedTools :
          ConnectMcpServer(name, how, initB, listB, listed)
    \/ \E name \in McpServers : DisconnectMcpServer(name)
    \/ \E pid \in DOMAIN procs : ChildExit(pid)
    \/ \E pid \in DOMAIN procs : ChildClosesStdin(pid)
    \/ \E input \in UserInputs, maxSteps \in RemoteStepLimits :
          AgentRuns /\ StartQuery(input, maxSteps)
    \/ BeginStep
    \/ ExitLoop
    \/ \E reply \in RemoteReplies : CallLlm(reply)
    \/ ExecuteTool
    \/ ExecuteRemoteInLoop
    \/ \E b \in ServerBehaviours : CallMcpToolFirst(b)
    \/ \E how \in LaunchOutcomes, b \in InitBehaviours : CallMcpToolReconnect(how, b)
    \/ \E b \in ServerBehaviours : CallMcpToolRetry(b)
    \/ SpliceRemote

SpecRemote == InitMcp /\ [][NextRemote]_vars

-----------------------------------------------------------------------------
(* An MCPClient on its own: connect, listTools, callTool, disconnect, and  *)
(* its transport used directly (mcp_client.cpp).                           *)

ClientName == "srv"

\* the record of an operation that starts now; listed says whether a
\* listing has filled the cache since the client was made or last
\* disconnected
ClientOp(op) ==
    [NoClientOp EXCEPT !.op = op, !.before = client, !.procsBefore = procs,
                       !.wireBefore = Len(wire), !.listed = clientLast.listed,
                       !.listedBefore = clientLast.listed]

\* how a written request ended
Ended(x) ==
    IF x.kind = "response" \/ x.kind = "value" \/ x.kind = "type_error" THEN "response"
    ELSE IF x.what = "MCP server read timeout after 30s" THEN "Timeout"
    ELSE IF x.what = "MCP server process died while waiting for response" THEN "ServerDied"
    ELSE "MalformedResponse"

\* the requests written once the exchange x is over
Wrote(x) ==
    IF x.sent = 1
    THEN Append(wire, [id |-> x.id, ended |-> Ended(x),
                       line |-> IF Ended(x) \in {"Timeout", "ServerDied"}
                                THEN "none" ELSE "read"])
    ELSE wire

\* the process goes on after an exchange, or SIGPIPE has ended it
Survives(x) == pc' = IF x.kind = "killed" THEN "killed" ELSE pc

CanBuild == client.transport_.requestId_ < MaxRequests

\* the mutant: the cache outlives disconnect
DisconnectedKeepsCache(c, r) ==
    [transport_ |-> r.transport, cachedTools_ |-> c.cachedTools_]

\* lines 555-560 of MCPClient::disconnect: the client once its transport has
\* cleaned up
Disconnected(c, r) == [transport_ |-> r.transport, cachedTools_ |-> None]

\* MCPClient::disconnect
McpDisconnect(reaction) ==
    /\ AgentRuns
    /\ client' = Disconnected(client, cleanupSteps(client.transport_, procs, reaction))
    /\ procs' = cleanupSteps(client.transport_, procs, reaction).procs
    /\ clientLast' = [ClientOp("disconnect") EXCEPT
                         !.steps = cleanupSteps(client.transport_, procs, reaction).steps,
                         !.listed = FALSE]
    /\ UNCHANGED <<promptVars, agentVars, tools_, queryVars, obsVars, regLast, mcpClients_,
                   mcpServerConfigs_, mcpLast, wire>>

\* lines 510-550 of MCPClient::connect: lastError_ once connect has returned
connectError(name, c) ==
    IF c.ok THEN ""
    ELSE IF c.kind = "none" THEN "Failed to establish transport connection to '" \o name \o "'"
    ELSE IF c.caught
    THEN "Error during initialization: "
             \o (IF c.what = "bad_error" THEN "json::type_error" ELSE c.what)
    ELSE "Initialization failed: tool failed"

\* MCPClient::connect, its result c
McpConnected(c) ==
    /\ client' = IF c.caught THEN Disconnected(client, c)
                 ELSE [client EXCEPT !.transport_ = c.transport]
    /\ procs' = c.procs
    /\ wire' = Wrote(c)
    /\ clientLast' = [ClientOp("connect") EXCEPT
                         !.kind = IF c.killed THEN "killed"
                                  ELSE IF c.ok THEN "true" ELSE "false",
                         !.sent = c.sent, !.id = c.id,
                         !.what = IF c.killed THEN "" ELSE connectError(ClientName, c),
                         !.listed = IF c.caught THEN FALSE ELSE @]
    /\ pc' = IF c.killed THEN "killed" ELSE pc

McpConnect(how, b) ==
    /\ AgentRuns
    /\ Len(procs) < MaxLaunches
    /\ CanBuild
    /\ McpConnected(MCPClient_connect(client.transport_, procs, how, b))
    /\ UNCHANGED <<promptVars, agentVars, tools_, userInput, stepsLimit, stepsTaken, messages,
                   finalAnswer, lastError, errorCount, stepResults, toolCallHistory,
                   response, parsed, outcome, obsVars, regLast, mcpClients_,
                   mcpServerConfigs_, mcpLast>>

\* StdioTransport::connect on the client's transport
TransportConnected(c) ==
    /\ client' = [client EXCEPT !.transport_ = c.transport]
    /\ procs' = c.procs
    /\ clientLast' = [ClientOp("transport_connect") EXCEPT
                         !.kind = IF c.ok THEN "true" ELSE "false"]

TransportConnect(how) ==
    /\ AgentRuns
    /\ Len(procs) < MaxLaunches
    /\ TransportConnected(StdioTransport_connect(client.transport_, procs, how))
    /\ UNCHANGED <<promptVars, agentVars, tools_, queryVars, obsVars, regLast, mcpClients_,
                   mcpServerConfigs_, mcpLast, wire>>

\* lines 571-590 of MCPClient::listTools: the tools/list request and its
\* answer; an exception of sendRequest leaves listTools
ListAnswered(x, listed, refresh) ==
    /\ client' = [transport_ |-> x.transport,
                  cachedTools_ |-> IF x.kind = "response" /\ x.what = "result"
                                   THEN Some(listed) ELSE client.cachedTools_]
    /\ procs' = x.procs
    /\ wire' = Wrote(x)
    /\ clientLast' = [ClientOp("listTools") EXCEPT
                         !.refresh = refresh, !.asked = TRUE,
                         !.kind = x.kind,
                         !.what = IF x.kind = "response" THEN "" ELSE x.what,
                         !.sent = x.sent, !.id = x.id,
                         !.returned = IF x.kind = "response" /\ x.what = "result"
                                      THEN listed ELSE <<>>,
                         !.listed = IF x.kind = "response" /\ x.what = "result"
                                    THEN TRUE ELSE @]
    /\ Survives(x)

\* lines 567-569 of MCPClient::listTools: the cache is served
ListServed(refresh) ==
    /\ clientLast' = [ClientOp("listTools") EXCEPT
                         !.refresh = refresh, !.served = TRUE, !.kind = "response",
                         !.returned = Value(client.cachedTools_)]
    /\ UNCHANGED <<client, procs, wire, pc>>

\* MCPClient::listTools(refresh)
ListTools(refresh, b, listed) ==
    /\ AgentRuns
    /\ CanBuild
    /\ IF HasValue(client.cachedTools_) /\ ~refresh
       THEN ListServed(refresh)
       ELSE ListAnswered(sendRequest(client.transport_, procs, b), listed, refresh)
    /\ UNCHANGED <<promptVars, agentVars, tools_, userInput, stepsLimit, stepsTaken, messages,
                   finalAnswer, lastError, errorCount, stepResults, toolCallHistory,
                   response, parsed, outcome, obsVars, regLast, mcpClients_,
                   mcpServerConfigs_, mcpLast>>

\* the end of a callTool or of a sendRequest, x
Exchanged(op, x) ==
    /\ client' = [client EXCEPT !.transport_ = x.transport]
    /\ procs' = x.procs
    /\ wire' = Wrote(x)
    /\ clientLast' = [ClientOp(op) EXCEPT
                         !.kind = x.kind,
                         !.what = IF x.kind = "response" THEN "" ELSE x.what,
                         !.asked = TRUE, !.sent = x.sent, !.id = x.id,
                         !.answerTo = IF x.sent = 1 /\ Ended(x) = "response"
                                      THEN x.id ELSE NoId]
    /\ Survives(x)

\* MCPClient::callTool
CallTool(b) ==
    /\ AgentRuns
    /\ CanBuild
    /\ Exchanged("callTool", callTool(ClientName, client.transport_, procs, b))
    /\ UNCHANGED <<promptVars, agentVars, tools_, userInput, stepsLimit, stepsTaken, messages,
                   finalAnswer, lastError, errorCount, stepResults, toolCallHistory,
                   response, parsed, outcome, obsVars, regLast, mcpClients_,
                   mcpServerConfigs_, mcpLast>>

\* StdioTransport::sendRequest on the client's transport
SendRequest(b) ==
    /\ AgentRuns
    /\ CanBuild
    /\ Exchanged("sendRequest", sendRequest(client.transport_, procs, b))
    /\ UNCHANGED <<promptVars, agentVars, tools_, userInput, stepsLimit, stepsTaken, messages,
                   finalAnswer, lastError, errorCount, stepResults, toolCallHistory,
                   response, parsed, outcome, obsVars, regLast, mcpClients_,
                   mcpServerConfigs_, mcpLast>>

NextClient ==
    \/ \E how \in LaunchOutcomes, b \in InitBehaviours : McpConnect(how, b)
    \/ \E how \in LaunchOutcomes : TransportConnect(how)
    \/ \E reaction \in TermReactions : McpDisconnect(reaction)
    \/ \E refresh \in BOOLEAN, b \in ServerBehaviours, listed \in ListedTools :
          ListTools(refresh, b, listed)
    \/ \E b \in ServerBehaviours : CallTool(b)
    \/ \E b \in SendBehaviours : SendRequest(b)
    \/ \E pid \in DOMAIN procs : ChildExit(pid)
    \/ \E pid \in DOMAIN procs : ChildClosesStdin(pid)

\* a client that has just been constructed
InitClient == InitReg

SpecClient == InitClient /\ [][NextClient]_vars

-----------------------------------------------------------------------------
(* Properties of the client and of its transport *)

\* the transport is connected and its child reads its standard input
Serving(t, ps) == isConnected(t, ps).alive /\ ps[t.pid] = "alive"

\* C17 (schema cache): once a listTools has succeeded and no disconnect has
\* followed, listTools() without refresh returns the cached schemas and
\* sends no request; listTools(refresh = true) never serves the cache and
\* goes to the transport, which writes a tools/list request whenever it is
\* connected; disconnect clears the cache, so no cached schema is served
\* when the client has been disconnected since the last listing.
C17_SchemaCache ==
    /\ clientLast.op = "listTools" =>
          /\ (~clientLast.refresh /\ clientLast.listedBefore) =>
                /\ clientLast.served
                /\ ~clientLast.asked
                /\ clientLast.sent = 0
                /\ Len(wire) = clientLast.wireBefore
                /\ HasValue(clientLast.before.cachedTools_)
                /\ clientLast.returned = Value(clientLast.before.cachedTools_)
          /\ clientLast.refresh =>
                /\ ~clientLast.served
                /\ clientLast.asked
                /\ Serving(clientLast.before.transport_, clientLast.procsBefore) =>
                      clientLast.sent = 1 /\ Len(wire) = clientLast.wireBefore + 1
          /\ clientLast.served => clientLast.listedBefore
    /\ clientLast.op = "disconnect" => client.cachedTools_ = None
    /\ ~clientLast.listed => client.cachedTools_ = None

\* a listing has been served from the cache after two requests were written
C17_Witness ==
    /\ clientLast.op = "listTools"
    /\ clientLast.served
    /\ Len(clientLast.returned) = 2
    /\ Len(wire) = 2

\* C18 (request ids): the requests one transport has written carry the ids
\* 0, 1, 2, ... in the order they were written, however the earlier ones
\* ended (response, Timeout, MalformedResponse).
C18_RequestIds == \A i \in DOMAIN wire : wire[i].id = i - 1

\* a third request has been written after one that timed out and one whose
\* response did not parse
C18_Witness ==
    /\ Len(wire) = 3
    /\ wire[1].ended = "Timeout"
    /\ wire[2].ended = "MalformedResponse"
    /\ wire[3].ended = "response"

\* the position of event e in the steps st, 0 when it is not there
FirstAt(st, e) ==
    IF \E i \in DOMAIN st : st[i] = e
    THEN SetMin({i \in DOMAIN st : st[i] = e})
    ELSE 0

Precedes(st, a, b) ==
    (FirstAt(st, a) # 0 /\ FirstAt(st, b) # 0) => FirstAt(st, a) < FirstAt(st, b)

\* the client holds nothing of a connection: no running transport, no open
\* descriptor, no cache
IsDisconnected(c) ==
    /\ ~c.transport_.running
    /\ c.transport_.stdinFd = NoFd
    /\ c.transport_.stdoutFd = NoFd
    /\ c.cachedTools_ = None

\* C19 (disconnect): disconnect closes the child's stdin, then its stdout,
\* then terminates the child (SIGTERM, the wait, SIGKILL when the child is
\* still running); afterwards isConnected is false and no child of the
\* transport remains; on a client that is disconnected already or was never
\* connected it changes nothing and does not fail.
C19_Disconnect ==
    clientLast.op = "disconnect" =>
        LET t == clientLast.before.transport_
            st == clientLast.steps
        IN  /\ t.stdinFd # NoFd => FirstAt(st, "close stdin") # 0
            /\ t.stdoutFd # NoFd => FirstAt(st, "close stdout") # 0
            /\ (t.running /\ t.pid > 0) => FirstAt(st, "SIGTERM") # 0
            /\ Precedes(st, "close stdin", "close stdout")
            /\ Precedes(st, "close stdout", "SIGTERM")
            /\ Precedes(st, "SIGTERM", "SIGKILL")
            /\ ~isConnected(client.transport_, procs).alive
            /\ IsDisconnected(client)
            /\ \A pid \in DOMAIN procs : procs[pid] = "reaped"
            /\ clientLast.kind # "runtime_error"
            /\ IsDisconnected(clientLast.before) =>
                  /\ client = clientLast.before
                  /\ procs = clientLast.procsBefore
                  /\ st = <<>>

\* a connected client whose child ignored SIGTERM has been disconnected
C19_Witness ==
    /\ clientLast.op = "disconnect"
    /\ clientLast.steps = <<"close stdin", "close stdout", "SIGTERM", "waitpid",
                            "SIGKILL", "waitpid">>
    /\ Len(wire) > 0

\* a client that was connected and disconnected has been disconnected again
C19_Again ==
    /\ clientLast.op = "disconnect"
    /\ IsDisconnected(clientLast.before)
    /\ clientLast.before.transport_.pid > 0

\* C20 (NotConnected): sendRequest on a transport that is not connected
\* (never connected, or disconnected) fails with "Transport not connected"
\* and writes no request; callTool on a client that is not connected fails
\* with "Not connected to MCP server '<name>'" and sends no tools/call; a
\* client and a transport that were just constructed are not connected.
C20_NotConnected ==
    /\ (clientLast.op = "sendRequest" /\ ~clientLast.before.transport_.running) =>
          /\ clientLast.kind = "runtime_error"
          /\ clientLast.what = "Transport not connected"
          /\ clientLast.sent = 0
          /\ Len(wire) = clientLast.wireBefore
          /\ procs = clientLast.procsBefore
    /\ (/\ clientLast.op = "callTool"
        /\ ~isConnected(clientLast.before.transport_, clientLast.procsBefore).alive) =>
          /\ clientLast.kind = "runtime_error"
          /\ clientLast.what = "Not connected to MCP server '" \o ClientName \o "'"
          /\ clientLast.sent = 0
          /\ Len(wire) = clientLast.wireBefore
    /\ client = NewClient => ~isConnected(client.transport_, procs).alive
    /\ ~isConnected(NewTransport, procs).alive

\* a request has been tried on a transport that had been connected, had
\* written a request and was disconnected
C20_Witness ==
    /\ clientLast.op = "sendRequest"
    /\ ~clientLast.before.transport_.running
    /\ clientLast.before.transport_.pid > 0
    /\ clientLast.what = "Transport not connected"
    /\ Len(wire) > 0

-----------------------------------------------------------------------------
(* Properties of the remote tool invocation *)

\* C9 (one-shot reconnect): a remote tool invocation ends with a value for
\* the loop, never with the process brought down; it spawns at most one
\* child, sends at most two tools/call requests and reconnects at most once;
\* it reconnects exactly when the first attempt failed in the transport or
\* the client was found dead, and calls the tool a second time exactly when
\* that reconnect succeeded.
C9_OneShotReconnect ==
    /\ mcpLast.kind # "killed"
    /\ mcpLast.spawns <= 1
    /\ mcpLast.calls <= 2
    /\ mcpLast.reconnects <= 1
    /\ mcpLast.kind = "value" =>
          /\ mcpLast.value.isObject
          /\ mcpLast.reconnects = 1 <=> (mcpLast.firstFailed \/ mcpLast.entry = "dead")
          /\ mcpLast.reconnected => mcpLast.reconnects = 1
          /\ mcpLast.tries = (IF mcpLast.entry = "connected" THEN 1 ELSE 0)
                             + (IF mcpLast.reconnected THEN 1 ELSE 0)

-----------------------------------------------------------------------------
(* Remote tools beside local ones: servers are attached to an agent whose  *)
(* registry also holds tools of its own, and tools are called by name.     *)

NamingServers == {"srv", "s2"}

\* the local tools: one named like the remote tool, one that differs from it
\* in case only
NamingLocals ==
    {LocalTool(n, "Echo back the message", "cb_echo") : n \in {"echo", "ECHO"}}

\* the names tools are called by
NamingQueries == {"echo", "mcp_srv_echo", "add"}

\* ToolRegistry::executeTool for a name that leads to no remote tool
ExecuteLocalTool(name) ==
    /\ AgentRuns
    /\ ~IsRemote(LookupTool(tools_, name))
    /\ ExecuteRegistered(name)

\* the servers answer every request: how a call fares in the transport is
\* left to the other specifications
NamingAnswers == {"result", "rpc_error"}

NextNaming ==
    \/ \E info \in NamingLocals : AgentRuns /\ RegisterTool(info)
    \/ \E name \in NamingServers, how \in LaunchOutcomes, listB \in NamingAnswers,
          listed \in ListedTools :
          ConnectMcpServer(name, how, "result", listB, listed)
    \/ \E name \in NamingQueries : ExecuteRemoteTool(name)
    \/ \E name \in NamingQueries : ExecuteLocalTool(name)
    \/ \E b \in NamingAnswers : CallMcpToolFirst(b)

SpecNaming == InitMcp /\ [][NextNaming]_vars

\* the name MCPToolSchema::toToolInfo gives the tool of a descriptor's origin
PrefixedName(d) == "mcp_" \o Value(d.mcpServer) \o "_" \o Value(d.mcpToolName)

\* the descriptors of a registry that came from a server
RemoteDescriptors(reg) == {reg[k] : k \in {n \in DOMAIN reg : HasValue(reg[n].mcpServer)}}

\* every descriptor that came from a server S and a schema T is registered
\* under "mcp_<S>_<T>" only, S is a server that was attached, and the call
\* of the descriptor is callMcpTool
NamedByOrigin ==
    \A k \in DOMAIN tools_ :
        HasValue(tools_[k].mcpServer) =>
            /\ HasValue(tools_[k].mcpToolName)
            /\ tools_[k].name = k
            /\ k = PrefixedName(tools_[k])
            /\ Value(tools_[k].mcpServer) \in DOMAIN mcpServerConfigs_
            /\ tools_[k].callback = Some("callMcpTool")

\* a remote call is under way: the registry is the one it was dispatched on
InRemoteCall == pc \in {"mcp_first", "mcp_reconnect", "mcp_retry"}

\* the remote call under way goes to descriptor d, and to the server d names
DispatchedTo(d) == CalledTool = Some(d) /\ CalledServer = Value(d.mcpServer)

\* C22 (remote tool naming), as claimed: every tool a server S registered
\* from a schema T is registered under exactly "mcp_<S>_<T>" and records S
\* and T; and a call by the bare name T goes to that tool whenever
\* resolveName finds a single tool for T.
C22_RemoteNaming ==
    /\ NamedByOrigin
    /\ InRemoteCall =>
          \A d \in RemoteDescriptors(tools_) :
              (Value(d.mcpToolName) = mcpLast.tool /\ resolveName(tools_, mcpLast.tool) # "")
                  => DispatchedTo(d)
    /\ regLast.op = "execute" =>
          \A d \in RemoteDescriptors(regLast.before) :
              (Value(d.mcpToolName) = regLast.info.name
                 /\ resolveName(regLast.before, regLast.info.name) # "")
                  => regLast.returned = d.name

\* C22 as amended: the naming part as claimed; a call by the bare name T goes
\* to the tool registered from S and T whenever T is not a registered name
\* itself and "mcp_<S>_<T>" is the only registered name that ends with "_T"
\* (without regard to case), and in that case only.
C22_RemoteNamingAmended ==
    /\ NamedByOrigin
    /\ InRemoteCall =>
          \A d \in RemoteDescriptors(tools_) :
              Value(d.mcpToolName) = mcpLast.tool =>
                  /\ ~hasTool(tools_, mcpLast.tool)
                  /\ SuffixMatches(tools_, mcpLast.tool) = {d.name}
                  /\ DispatchedTo(d)
    /\ regLast.op = "execute" =>
          \A d \in RemoteDescriptors(regLast.before) :
              Value(d.mcpToolName) = regLast.info.name =>
                  /\ regLast.returned # d.name
                  /\ \/ hasTool(regLast.before, regLast.info.name)
                     \/ SuffixMatches(regLast.before, regLast.info.name) # {d.name}

\* two servers were attached and registered their tools beside a local one,
\* and a call by the bare name of a tool only one of them has is under way
C22_Witness ==
    /\ InRemoteCall
    /\ mcpLast.tool = "add"
    /\ {"echo", "mcp_srv_echo", "mcp_s2_echo"} \subseteq DOMAIN tools_
    /\ Cardinality({d \in RemoteDescriptors(tools_) : Value(d.mcpToolName) = "add"}) = 1

\* the call by a bare name went to the local tool of that name
C22_LocalWins ==
    /\ regLast.op = "execute"
    /\ regLast.info.name = "echo"
    /\ regLast.returned = "echo"
    /\ hasTool(regLast.before, "mcp_srv_echo")
    /\ resolveName(regLast.before, "echo") = "mcp_srv_echo"

-----------------------------------------------------------------------------
(* The system prompt of an agent whose tools change: tools are registered  *)
(* through the registry, servers are attached, the prompt is asked for and *)
(* a query is run.                                                         *)

\* Agent::systemPrompt called from outside
SystemPrompt ==
    /\ AgentRuns
    /\ SystemPromptCalled
    /\ UNCHANGED <<agentVars, tools_, queryVars, obsVars, regLast, mcpVars>>

\* Agent::rebuildSystemPrompt
RebuildSystemPrompt ==
    /\ AgentRuns
    /\ systemPromptDirty_' = TRUE
    /\ UNCHANGED <<cachedSystemPrompt_, agentVars, tools_, queryVars, obsVars, regLast,
                   mcpVars>>

\* the tools the owner of the agent registers through toolRegistry()
PromptLocals ==
    {LocalTool("echo", "Echo back the message", "cb_echo"),
     LocalTool("newTool", "A new tool", "cb_echo")}

\* the model's answer to the query
PromptReplies == {TextReply(" pong ")}

NextPrompt ==
    \/ \E info \in PromptLocals : AgentRuns /\ RegisterTool(info)
    \/ \E name \in McpServers, how \in LaunchOutcomes, listB \in ListBehaviours,
          listed \in ListedTools :
          ConnectMcpServer(name, how, "result", listB, listed)
    \/ SystemPrompt
    \/ RebuildSystemPrompt
    \/ \E input \in UserInputs, maxSteps \in RemoteStepLimits :
          AgentRuns /\ StartQuery(input, maxSteps)
    \/ BeginStep
    \/ \E reply \in PromptReplies : CallLlm(reply)
    \/ CallLlmFails
    \/ \E reply \in PromptReplies : RetryLlm(reply)

SpecPrompt == InitMcp /\ [][NextPrompt]_vars

\* the LLM call of the query has been made, with the prompt of the cache
Prompted == pc \in {"retry", "returned"}

\* C24 (system prompt freshness), as claimed: whatever registrations and
\* attaches came before, the prompt an LLM call is made with lists exactly
\* the tools that are registered.
C24_PromptFresh ==
    Prompted =>
        /\ ~systemPromptDirty_
        /\ cachedSystemPrompt_ = composeSystemPrompt(tools_)

\* C24 as amended: a call of systemPrompt() (the LLM calls make one) on a
\* prompt marked dirty composes it from the tools registered then, and one
\* on a prompt not marked returns the prompt composed before; an attach that
\* registers remote tools marks the prompt, and so does rebuildSystemPrompt,
\* while a registration through the registry leaves the mark as it is.
C24_PromptFreshAmended ==
    [][/\ (systemPromptDirty_ /\ ~systemPromptDirty_') =>
              /\ tools_' = tools_
              /\ cachedSystemPrompt_' = composeSystemPrompt(tools_)
       /\ (~systemPromptDirty_ /\ ~systemPromptDirty_') =>
              cachedSystemPrompt_' = cachedSystemPrompt_
       /\ RemoteDescriptors(tools_') # RemoteDescriptors(tools_) => systemPromptDirty_'
       /\ (tools_' # tools_ /\ RemoteDescriptors(tools_') = RemoteDescriptors(tools_)) =>
              systemPromptDirty_' = systemPromptDirty_
       /\ Prompted' => ~systemPromptDirty_']_vars

\* a prompt was composed, a tool was registered and a server attached after
\* it, and the query's LLM call got a prompt that lists them all
C24_Witness ==
    /\ pc = "returned"
    /\ cachedSystemPrompt_ = composeSystemPrompt(tools_)
    /\ {"newTool", "mcp_srv_echo"} \subseteq DOMAIN tools_
    /\ "- newTool(): A new tool" \in cachedSystemPrompt_.lines
    /\ "- mcp_srv_echo(): [MCP:srv] echo" \in cachedSystemPrompt_.lines

\* the query's LLM call got a prompt composed before a tool was registered
C24_Stale ==
    /\ pc = "returned"
    /\ "newTool" \in DOMAIN tools_
    /\ cachedSystemPrompt_.composed
    /\ "- newTool(): A new tool" \notin cachedSystemPrompt_.lines

-----------------------------------------------------------------------------
(* The loop under either console: the model's replies carry plans.         *)

PlanReply(name, planText) ==
    ObjectReply("{\"thought\":\"t\",\"plan\":" \o planText \o ",\"tool\":\"" \o name
                    \o "\",\"tool_args\":{}}",
                [NoFields EXCEPT !.thought = JString("t"), !.tool = JString(name),
                                 !.tool_args = JObject("{}"),
                                 !.plan = JArray(planText)])

\* a tool call with each plan of the model and with none, an answer with a
\* plan, and plain text
SinkReplies ==
    {PlanReply("echo", pl.text) : pl \in Plans}
    \cup {PlanReply("probe", "[{\"tool\":\"echo\"},{\"tool\":\"echo\"}]")}
    \cup {ToolReply("echo"), TextReply(" pong "),
          ObjectReply("{\"thought\":\"t\",\"plan\":[\"look\",{\"tool\":5}],\"answer\":\"done\"}",
                      [NoFields EXCEPT !.thought = JString("t"), !.answer = JString("done"),
                                       !.plan = JArray("[\"look\",{\"tool\":5}]")])}

\* an agent with the echo tool and one console or the other
InitSink ==
    /\ config_ \in {AgentConfig(MaxSteps, 0, 4), Terminal(AgentConfig(MaxSteps, 0, 4))}
    /\ tools_ = Deployment("")
    /\ conversationHistory_ = <<>>
    /\ executionState_ = "PLANNING"
    /\ mcpClients_ = <<>>
    /\ mcpServerConfigs_ = <<>>
    /\ procs = <<>>
    /\ regLast = NoRegOp
    /\ mcpLast = NoMcpCall
    /\ client = NewClient
    /\ wire = <<>>
    /\ clientLast = NoClientOp
    /\ cachedSystemPrompt_ = NoPrompt
    /\ systemPromptDirty_ = TRUE
    /\ QueryIdle

NextSink ==
    \/ \E input \in UserInputs, maxSteps \in RemoteStepLimits : StartQuery(input, maxSteps)
    \/ BeginStep
    \/ ExitLoop
    \/ \E reply \in SinkReplies : CallLlm(reply)
    \/ ExecuteTool

SpecSink == InitSink /\ [][NextSink]_vars

\* the reply of the step has been parsed and shown
Shown == pc \in {"tool", "returned", "thrown"} /\ response # NoReply

\* C25 (sink independence): with the history, the input, the LLM replies
\* and the tool results the same, processQuery does the same under either
\* console: wherever a reply has been shown, showing it went the same way
\* (it returned, or it threw) as it would have gone under the other console,
\* so that the call ends with an exception only if it does so under both.
C25_SinkIndependence ==
    /\ Shown => ShowPlan(TRUE, parsed) = ShowPlan(FALSE, parsed)
    /\ pc = "thrown" => (parsed.threw \/ ShowPlan(TRUE, parsed))

\* under the terminal console the query ended with an exception on a reply
\* that asks for a tool
C25_TerminalThrows ==
    /\ pc = "thrown"
    /\ ~config_.silentMode
    /\ ~parsed.threw
    /\ parsed.toolName = Some("echo")
    /\ executed = <<>>

\* under the silent console the tool of the same reply was run
C25_SilentRuns ==
    /\ pc = "loop"
    /\ config_.silentMode
    /\ parsed.plan = Some(JArray("[\"look\",{\"tool\":5}]"))
    /\ executed = <<"echo">>

\* C32 (the plan is advisory): a reply with a plan of any length has at
\* most one tool run in its step, the tool its own tool field names, and no
\* step of the plan is run by the loop; so in every query the tools run are
\* at most as many as the steps taken, and a step runs at most one.
C32_PlanAdvisory ==
    /\ []((pc \in {"idle", "loop", "returned", "thrown"}) => Len(executed) <= stepsTaken)
    /\ []((pc \in {"llm", "retry", "tool"}) => Len(executed) < stepsTaken)
    /\ [][executed' # executed =>
             \/ executed' = <<>>
             \/ /\ pc = "tool"
                /\ stepsTaken' = stepsTaken
                /\ executed' = Append(executed, response.j.tool.v)]_vars

\* the tool of a reply was run, not found, and the two steps of the reply's
\* plan, which name the echo tool, were not
C32_Witness ==
    /\ pc = "loop"
    /\ stepsTaken = 1
    /\ parsed.plan = Some(JArray("[{\"tool\":\"echo\"},{\"tool\":\"echo\"}]"))
    /\ executed = <<"probe">>
    /\ Len(toolCallHistory) = 1

\* C23 (teardown): once disconnectAllMcp has run, after whatever attaches,
\* detaches, remote calls and reconnects came before, every child spawned
\* up to then has terminated and has been waited for or has exited by
\* itself, no client holds a running transport, and the client map is empty
\* until a server is attached again.
C23_Teardown ==
    mcpLast.kind = "disconnected_all" =>
        /\ mcpLast.children <= Len(procs)
        /\ \A pid \in 1..mcpLast.children : Exited(procs, pid)
        /\ \A n \in DOMAIN mcpClients_ : mcpClients_[n].pid > mcpLast.children
        /\ Len(procs) = mcpLast.children => DOMAIN mcpClients_ = {}

\* a teardown of an agent with an attached server that spawned two children
C23_Witness ==
    /\ mcpLast.kind = "disconnected_all"
    /\ mcpLast.children = 2
    /\ Len(procs) = 2
    /\ procs[1] = "reaped"
    /\ procs[2] = "reaped"
    /\ DOMAIN mcpClients_ = {}
    /\ "srv" \in DOMAIN mcpServerConfigs_

-----------------------------------------------------------------------------
(* Properties of the loop with remote tools *)

\* the last message of the conversation with the tool role
LastToolMessage(msgs) ==
    LET at == {i \in DOMAIN msgs : msgs[i].role = "tool"}
    IN  IF at = {} THEN None ELSE Some(msgs[SetMax(at)])

\* the remote call the loop made last has returned and its value was handled
\* by lines 522-546
Spliced == mcpLast.from = "loop" /\ mcpLast.kind = "value" /\ pc # "splice"

\* C21 (a remote error is data): when the server answers the tools/call of a
\* loop step with a JSON-RPC error, callTool returns {"error": <message>}
\* and nothing is thrown, the invocation ends with that try (a reconnect was
\* made only for an earlier failure), the loop appends the dump of that
\* value as the tool message of the call, and the loop is not moved into
\* ERROR_RECOVERY nor is the message taken as the last error.
C21_RemoteErrorIsData ==
    (mcpLast.from = "loop" /\ mcpLast.answered = "rpc_error") =>
        /\ mcpLast.kind = "value"
        /\ ~mcpLast.raised
        /\ mcpLast.value = ErrorData("tool failed")
        /\ mcpLast.reconnects =
               (IF mcpLast.firstFailed \/ mcpLast.entry = "dead" THEN 1 ELSE 0)
        /\ mcpLast.tries =
               mcpLast.reconnects + (IF mcpLast.entry = "connected" THEN 1 ELSE 0)
        /\ Spliced =>
               /\ LastToolMessage(messages) =
                      Some(ToolMessage(mcpLast.tool, "{\"error\":\"tool failed\"}"))
               /\ executionState_ # "ERROR_RECOVERY"
               /\ lastError # "tool failed"

\* a first attempt answered with a JSON-RPC error has been spliced, and the
\* loop goes on
C21_Witness ==
    /\ Spliced
    /\ mcpLast.answered = "rpc_error"
    /\ mcpLast.tries = 1
    /\ mcpLast.reconnects = 0
    /\ pc = "llm"
    /\ Len(executed) = 1

\* C29 (a persistent transport failure is a tool failure): when the
\* transport error of a remote call of the loop outlives the one reconnect
\* (the reconnect fails, or the call made again fails in the transport), the
\* value the loop gets is {"status": "error", "error": <message>}, and once
\* it is spliced the loop is in ERROR_RECOVERY with that message as the last
\* error.
C29_PersistentFailure ==
    (mcpLast.from = "loop" /\ mcpLast.failed # "") =>
        /\ mcpLast.kind = "value"
        /\ mcpLast.value.status = JString("error")
        /\ mcpLast.value.error.t = "string"
        /\ (Spliced /\ pc = "loop") =>
               /\ executionState_ = "ERROR_RECOVERY"
               /\ JString(lastError) = mcpLast.value.error

\* what does hold: the value is {"error": <message>} with no status, and the
\* loop goes on in PLANNING
C29_FailureIsData ==
    (mcpLast.from = "loop" /\ mcpLast.failed # "") =>
        /\ mcpLast.kind = "value"
        /\ mcpLast.value.status = Absent
        /\ mcpLast.value.error.t = "string"
        /\ Spliced => executionState_ = "PLANNING"

-----------------------------------------------------------------------------
(* Error recovery (processQuery, lines 421-437 and 537-546) *)

\* a tool result is the last thing the loop has handled: its message ends
\* the conversation and it is the last of the step results
JustSpliced ==
    /\ pc \in {"loop", "thrown"}
    /\ messages # <<>>
    /\ messages[Len(messages)].role = "tool"
    /\ stepResults # <<>>
    /\ messages[Len(messages)].content = TruncateResult(stepResults[Len(stepResults)].text)

\* an object with status == "error"
Failed(toolResult) == toolResult.isObject /\ toolResult.status = JString("error")

\* the error a failed result carries: its "error" member, "Unknown error"
\* when it has none
ErrorOf(toolResult) ==
    IF toolResult.error.t = "absent" THEN "Unknown error" ELSE toolResult.error.v

IsRecoveryPrompt(msg) ==
    /\ msg.role = "user"
    /\ Len(msg.content) >= 22
    /\ SubSeq(msg.content, 1, 22) = "TOOL EXECUTION FAILED!"

RecoveryPrompts(msgs) == {i \in DOMAIN msgs : IsRecoveryPrompt(msgs[i])}

\* the state part, for the failed results in Scope: a failed result that
\* has been spliced leaves the loop in ERROR_RECOVERY with its error kept;
\* the loop is in ERROR_RECOVERY only straight after such a result
EntersRecovery(Scope(_)) ==
    /\ (JustSpliced /\ Failed(stepResults[Len(stepResults)])
            /\ Scope(stepResults[Len(stepResults)])) =>
          /\ pc = "loop"
          /\ executionState_ = "ERROR_RECOVERY"
          /\ lastError = ErrorOf(stepResults[Len(stepResults)])
    /\ (executionState_ = "ERROR_RECOVERY" /\ InLoop) =>
          /\ JustSpliced
          /\ Failed(stepResults[Len(stepResults)])

\* the step part: a step begun in ERROR_RECOVERY appends the one prompt,
\* which quotes the error, straight after the tool message, clears the step
\* results and goes back to PLANNING before the LLM is called; no other step
\* of a query adds a recovery prompt
RecoveryStep ==
    /\ (pc = "loop" /\ pc' = "llm" /\ executionState_ = "ERROR_RECOVERY") =>
          /\ messages' = Append(messages, UserMessage(RecoveryPrompt(lastError, userInput)))
          /\ IsRecoveryPrompt(messages'[Len(messages')])
          /\ messages[Len(messages)].role = "tool"
          /\ stepResults' = <<>>
          /\ executionState_' = "PLANNING"
    /\ (InLoop /\ ~(pc = "loop" /\ pc' = "llm" /\ executionState_ = "ERROR_RECOVERY")) =>
          RecoveryPrompts(messages') = RecoveryPrompts(messages)

AnyResult(toolResult) == TRUE
TypedError(toolResult) == toolResult.error.t \in {"absent", "string"}

\* C26 (error recovery): a tool result that is an object with status
\* "error" (a tool not found and a callback's exception included) puts the
\* loop in ERROR_RECOVERY; a further step then appends exactly one user
\* message quoting the error before its LLM call, clears the step results and
\* returns to PLANNING, so that the recovery prompt appears once per failed
\* call and directly after that call's tool message.
C26_ErrorRecovery == [](EntersRecovery(AnyResult)) /\ [][RecoveryStep]_vars

\* what holds of the code: the same, for the failed results whose "error"
\* member is a string or is absent
C26_TypedErrorRecovery == [](EntersRecovery(TypedError)) /\ [][RecoveryStep]_vars

\* a recovery prompt follows the message of a callback's converted exception
C26_Recovered ==
    /\ pc = "llm"
    /\ Len(messages) >= 2
    /\ IsRecoveryPrompt(messages[Len(messages)])
    /\ messages[Len(messages)].content =
           RecoveryPrompt("Tool execution failed: boom", userInput)
    /\ messages[Len(messages) - 1].role = "tool"
    /\ executionState_ = "PLANNING"

\* a result with status "error" ended the call with an exception
C26_FailedThrows ==
    /\ pc = "thrown"
    /\ JustSpliced
    /\ Failed(stepResults[Len(stepResults)])
    /\ executionState_ = "PLANNING"

-----------------------------------------------------------------------------
(* The execution state at the end of a query *)

\* C27 (terminal state): whenever processQuery has returned (an answer, the
\* step limit, the loop detector, or the LLM failing twice) the execution
\* state is COMPLETION, and within a query COMPLETION is never left.
C27_TerminalState ==
    /\ [](pc = "returned" => executionState_ = "COMPLETION")
    /\ [][(executionState_ = "COMPLETION" /\ queries' = queries)
              => executionState_' = "COMPLETION"]_vars

\* what holds of the code: the state is PLANNING or ERROR_RECOVERY at every
\* moment, the return included
C27_NeverCompletion == executionState_ \in {"PLANNING", "ERROR_RECOVERY"}

\* a query has returned at the step limit with the state ERROR_RECOVERY
C27_ReturnedInRecovery ==
    /\ pc = "returned"
    /\ exitReason = "limit"
    /\ executionState_ = "ERROR_RECOVERY"

\* a query has returned an answer with the state PLANNING
C27_ReturnedInPlanning ==
    /\ pc = "returned"
    /\ exitReason = "answer"
    /\ executionState_ = "PLANNING"

-----------------------------------------------------------------------------
(* The rule of the loop detector *)

\* the loop has decided on a requested tool call: it goes on to run it, or
\* it has stopped the query; toolCallHistory is as the detector read it
DetectorDecided == pc = "tool" \/ (pc = "returned" /\ exitReason = "loop")

DetectorStopped ==
    /\ pc = "returned"
    /\ exitReason = "loop"
    /\ outcome.result = "Task stopped due to repeated tool call loop."

\* the last n executed calls exist and are all of the tool called name
LastCallsOf(history, n, name) ==
    /\ Len(history) >= n
    /\ \A i \in (Len(history) - n + 1)..Len(history) : history[i][1] = name

\* C28 (loop detector rule): a requested tool call is stopped with the
\* loop-stop answer exactly when the last max_consecutive_repeats executed
\* calls of the query are all of one tool, the one requested, whatever
\* max_consecutive_repeats is configured and however many other calls
\* precede them; the arguments are not compared.
C28_DetectorRule ==
    DetectorDecided =>
        (DetectorStopped <=>
             LastCallsOf(toolCallHistory, config_.maxConsecutiveRepeats,
                         requested[Len(requested)]))

\* what holds of the code: the call is stopped exactly when at least four
\* calls were executed and the last three are of the tool requested
C28_CodeRule ==
    DetectorDecided =>
        (DetectorStopped <=>
             (Len(toolCallHistory) >= 4
                 /\ LastCallsOf(toolCallHistory, 3, requested[Len(requested)])))

\* with two repeats configured a third call in a row goes on to be run
C28_NotStopped ==
    /\ pc = "tool"
    /\ config_.maxConsecutiveRepeats = 2
    /\ LastCallsOf(toolCallHistory, 2, requested[Len(requested)])

\* with four configured a call is stopped after three calls of its tool that
\* follow a call of another
C28_StoppedEarly ==
    /\ DetectorStopped
    /\ config_.maxConsecutiveRepeats = 4
    /\ ~LastCallsOf(toolCallHistory, 4, requested[Len(requested)])

-----------------------------------------------------------------------------
(* The outcomes of a request on the transport *)

\* the last operation was a sendRequest on a transport that was connected
SentOnConnected ==
    /\ clientLast.op = "sendRequest"
    /\ isConnected(clientLast.before.transport_, clientLast.procsBefore).alive

TimeoutFailure == "MCP server read timeout after 30s"
ServerDiedFailure == "MCP server process died while waiting for response"
MalformedFailure == "Invalid JSON response from MCP server: parse error"

\* one request line was written by the last operation
WroteOneLine == clientLast.sent = 1 /\ Len(wire) = clientLast.wireBefore + 1

\* the transport is left not connected, and a further request on it fails
\* with "Transport not connected"
LeftNotConnected ==
    /\ ~client.transport_.running
    /\ ~isConnected(client.transport_, procs).alive
    /\ \A b \in SendBehaviours :
          /\ sendRequest(client.transport_, procs, b).kind = "runtime_error"
          /\ sendRequest(client.transport_, procs, b).what = "Transport not connected"
          /\ sendRequest(client.transport_, procs, b).sent = 0

LeftConnected ==
    /\ client.transport_.running
    /\ isConnected(client.transport_, procs).alive

\* what follows the failures of a request that was written
AfterFailure ==
    /\ clientLast.what = ServerDiedFailure => LeftNotConnected
    /\ clientLast.what = TimeoutFailure => LeftConnected

\* the outcomes of the claim, of the state an operation leaves
SendOutcomes ==
    SentOnConnected =>
        /\ WroteOneLine
        /\ \/ clientLast.kind = "response"
           \/ /\ clientLast.kind = "runtime_error"
              /\ clientLast.what \in {TimeoutFailure, ServerDiedFailure, MalformedFailure}
        /\ AfterFailure

\* C30 (send outcomes): a sendRequest on a connected transport writes
\* exactly one request line and then returns the parsed response line or
\* fails with the timeout, with the death of the server, or with the
\* malformed response; after the death of the server the transport is not
\* connected and a later sendRequest fails with "Transport not connected",
\* and after a timeout the transport is still connected.
C30_SendOutcomes == [][clientLast' # clientLast => SendOutcomes']_vars

\* what holds of the code: the same, with two more outcomes: the process is
\* killed by the write, no line written, and the failure "Server closed
\* connection" after the line was written
SendOutcomesOfCode ==
    SentOnConnected =>
        \/ clientLast.kind = "killed" /\ clientLast.sent = 0 /\ pc = "killed"
        \/ /\ WroteOneLine
           /\ \/ clientLast.kind = "response"
              \/ /\ clientLast.kind = "runtime_error"
                 /\ clientLast.what \in {TimeoutFailure, ServerDiedFailure,
                                         MalformedFailure, "Server closed connection"}
           /\ AfterFailure

C30_SendOutcomesOfCode == [][clientLast' # clientLast => SendOutcomesOfCode']_vars

\* the write of the request to a connected transport has killed the process
C30_Killed ==
    /\ SentOnConnected
    /\ clientLast.kind = "killed"
    /\ Len(wire) = clientLast.wireBefore

\* a request on a connected transport has failed with "Server closed
\* connection"
C30_Closed ==
    /\ SentOnConnected
    /\ clientLast.what = "Server closed connection"
    /\ LeftConnected

\* the server has died during a request
C30_Died == SentOnConnected /\ clientLast.what = ServerDiedFailure /\ LeftNotConnected

\* a request has timed out
C30_TimedOut == SentOnConnected /\ clientLast.what = TimeoutFailure /\ LeftConnected

-----------------------------------------------------------------------------
(* The live conversation of a query *)

IsPrefixOf(a, b) == Len(a) <= Len(b) /\ SubSeq(b, 1, Len(a)) = a

\* the first LLM call of a query is passed the stored history followed by
\* the user message
FirstCallSeesHistory ==
    (pc \in {"llm", "retry"} /\ stepsTaken = 1) =>
        messages = Append(conversationHistory_, UserMessage(userInput))

\* a step of a running query only appends to the conversation
OnlyAppends == (InLoop /\ queries' = queries) => IsPrefixOf(messages, messages')

\* an LLM call that returns a reply: the reply is appended as it is, whether
\* or not its parsing then throws, so that a later call is passed more
ReplyAppended ==
    (pc \in {"llm", "retry"} /\ pc' \in {"tool", "returned", "thrown"}
        /\ exitReason' # "llm_error") =>
        messages' = Append(messages, [role |-> "assistant", content |-> response'.raw,
                                      name |-> None])

\* a tool message is appended straight after the assistant message of the
\* reply that asked for the tool
ToolFollowsRequest ==
    (pc = "tool" /\ messages' # messages) =>
        /\ Len(messages') = Len(messages) + 1
        /\ messages'[Len(messages')].role = "tool"
        /\ messages'[Len(messages')].name = parsed.toolName
        /\ messages[Len(messages)] =
               [role |-> "assistant", content |-> response.raw, name |-> None]

\* C31 (append-only conversation): within a query the conversation only
\* grows by appends; the messages passed to an LLM call are a strict prefix
\* of those passed to the next one; the first call is passed the history
\* followed by the user message; the reply is appended verbatim before it is
\* parsed; a tool message directly follows the assistant message that asked
\* for it.
C31_AppendOnly ==
    /\ [](FirstCallSeesHistory)
    /\ [](\A i, j \in DOMAIN llmLog :
              i < j => (IsPrefixOf(llmLog[i], llmLog[j]) /\ llmLog[i] # llmLog[j]))
    /\ [][OnlyAppends /\ ReplyAppended /\ ToolFollowsRequest]_vars

\* the same, the two calls of one step apart: the retry of a failed call is
\* passed the messages of that call, and every call of a later step is
\* passed more
C31_AppendOnlyAmended ==
    /\ [](FirstCallSeesHistory)
    /\ [](\A i, j \in DOMAIN llmLog : llmLog[i] = llmLog[j])
    /\ []((pc \in {"llm", "retry"}) => (\A i \in DOMAIN llmLog : llmLog[i] = messages))
    /\ [][OnlyAppends /\ ReplyAppended /\ ToolFollowsRequest]_vars

\* the second step of a query calls the LLM after a tool result, a retry
\* having been made in it
C31_Witness ==
    /\ pc = "retry"
    /\ stepsTaken = 2
    /\ Len(llmLog) = 1
    /\ Len(messages) = Len(conversationHistory_) + 3
    /\ messages[Len(messages)].role = "tool"
    /\ messages[Len(messages) - 1].role = "assistant"

-----------------------------------------------------------------------------
(* Parameter placeholders (Agent::resolvePlanParameters, agent.cpp).  The   *)
(* arguments of the model are objects with one member, "message", a string. *)

ArgValues == {"hi", "$PREV.echoed", "$PREV.missing", "$STEP_0.echoed",
              "$STEP_1.echoed", "$STEP_7.echoed", "$STEP_.echoed"}

ArgsObject(member) == JObject("{\"message\":" \o Dump(member) \o "}")

\* the "message" member of an arguments object of the model
MessageOf(toolArgs) ==
    CHOOSE val \in ArgValues : toolArgs = ArgsObject(JString(val))

\* a member of a tool result: its status, its error, or a member of the
\* result of the echo tool
Member(toolResult, field) ==
    IF field = "status" THEN toolResult.status
    ELSE IF field = "error" THEN toolResult.error
    ELSE IF field = "echoed" /\ toolResult.text = "{\"echoed\":\"hi\"}" THEN JString("hi")
    ELSE Absent

Contains(toolResult, field) == toolResult.isObject /\ Member(toolResult, field) # Absent

IsDigits(s) == s # "" /\ \A i \in 1..Len(s) : \E d \in 1..10 : SubSeq("0123456789", d, d) = SubSeq(s, i, i)

RECURSIVE StoI(_)
StoI(s) ==
    IF s = "" THEN 0
    ELSE 10 * StoI(SubSeq(s, 1, Len(s) - 1))
         + (CHOOSE d \in 0..9 : SubSeq("0123456789", d + 1, d + 1) = SubSeq(s, Len(s), Len(s)))

\* std::regex_match(val, R"(\$STEP_(\d+)\.(.+))"): the index and the field
StepMatch(val) ==
    LET dots == {i \in 7..Len(val) : SubSeq(val, i, i) = "."}
        dot == IF dots = {} THEN 0 ELSE CHOOSE i \in dots : \A k \in dots : i <= k
    IN  IF /\ Len(val) >= 6
           /\ SubSeq(val, 1, 6) = "$STEP_"
           /\ dot > 7
           /\ dot < Len(val)
           /\ IsDigits(SubSeq(val, 7, dot - 1))
        THEN [matched |-> TRUE, idx |-> StoI(SubSeq(val, 7, dot - 1)),
              field |-> SubSeq(val, dot + 1, Len(val))]
        ELSE [matched |-> FALSE, idx |-> 0, field |-> ""]

\* lines 244-259: the $STEP_N.field form
ResolveStep(val, results, m) ==
    IF /\ m.matched
       /\ results # <<>>
       /\ m.idx < Len(results)
       /\ Contains(results[m.idx + 1], m.field)
    THEN Member(results[m.idx + 1], m.field)
    ELSE JString(val)

\* lines 234-259: a string value
ResolveString(val, results) ==
    IF /\ Len(val) >= 6
       /\ SubSeq(val, 1, 6) = "$PREV."
       /\ results # <<>>
       /\ Contains(results[Len(results)], SubSeq(val, 7, Len(val)))
    THEN Member(results[Len(results)], SubSeq(val, 7, Len(val)))
    ELSE ResolveStep(val, results, StepMatch(val))

\* Agent::resolvePlanParameters on an arguments object of the model
resolvePlanParameters(toolArgs, results) ==
    IF toolArgs = JObject("{}") THEN toolArgs
    ELSE ArgsObject(ResolveString(MessageOf(toolArgs), results))

ArgsReply(name, val) ==
    ObjectReply("{\"thought\":\"t\",\"tool\":\"" \o name \o "\",\"tool_args\":"
                    \o ArgsObject(JString(val)).v \o "}",
                [NoFields EXCEPT !.thought = JString("t"), !.tool = JString(name),
                                 !.tool_args = ArgsObject(JString(val))])

ArgsReplies ==
    {ArgsReply("echo", val) : val \in ArgValues} \cup {ToolReply("echo"), TextReply(" pong ")}

ArgsStepLimits == {3}

\* an agent with the echo tool
InitArgs == InitSink /\ config_.silentMode

NextArgs ==
    \/ \E input \in UserInputs, maxSteps \in ArgsStepLimits : StartQuery(input, maxSteps)
    \/ BeginStep
    \/ ExitLoop
    \/ \E reply \in ArgsReplies : CallLlm(reply)
    \/ ExecuteTool

SpecArgs == InitArgs /\ [][NextArgs]_vars

\* a tool has just been run: its call has been added to the history
ToolRan == pc = "tool" /\ Len(toolCallHistory') = Len(toolCallHistory) + 1

\* C33 (placeholder substitution in the loop): the arguments a tool is run
\* with are the reply's tool_args in which a string "$PREV.<field>" or
\* "$STEP_<k>.<field>" has been replaced by that field of the previous, or
\* of the k-th, step result of the query, and in which a value that matches
\* no captured result is unchanged.
C33_Substitution ==
    [][ToolRan =>
          toolCallHistory'[Len(toolCallHistory')][2]
              = resolvePlanParameters(Value(parsed.toolArgs), stepResults)]_vars

\* what holds of the code: the tool is run with the reply's tool_args as
\* they are
C33_PassedUnchanged ==
    [][ToolRan => toolCallHistory'[Len(toolCallHistory')][2] = Value(parsed.toolArgs)]_vars

\* a tool is about to be run with a placeholder that names a member of the
\* previous result
C33_PlaceholderPending ==
    /\ pc = "tool"
    /\ parsed.toolArgs = Some(ArgsObject(JString("$PREV.echoed")))
    /\ stepResults # <<>>
    /\ resolvePlanParameters(Value(parsed.toolArgs), stepResults)
           = ArgsObject(JString("hi"))

\* the same with the form $STEP_1, the second result
C33_StepPlaceholderPending ==
    /\ pc = "tool"
    /\ parsed.toolArgs = Some(ArgsObject(JString("$STEP_1.echoed")))
    /\ Len(stepResults) = 2
    /\ resolvePlanParameters(Value(parsed.toolArgs), stepResults)
           = ArgsObject(JString("hi"))

-----------------------------------------------------------------------------
(* A server that answers late.  The answer to a request that timed out is  *)
(* a line in the pipe of the child's standard output, and readLine reads    *)
(* the first line there is.                                                *)

Unread(w) == {i \in DOMAIN w : w[i].line = "unread"}

\* the first line of the pipe: the oldest answer not read, 0 for none
FirstUnread(w) ==
    IF Unread(w) = {} THEN 0 ELSE CHOOSE i \in Unread(w) : \A k \in Unread(w) : i <= k

\* the child, which answers in order, writes the answer to a request whose
\* sendRequest has timed out
ChildAnswersLate(i) ==
    /\ pc # "killed"
    /\ client.transport_.running
    /\ procs[client.transport_.pid] = "alive"
    /\ wire[i].line = "none"
    /\ \A k \in DOMAIN wire : (k < i => wire[k].line # "none") /\ (k > i => wire[k].line = "none")
    /\ wire' = [wire EXCEPT ![i].line = "unread"]
    /\ UNCHANGED <<promptVars, agentVars, tools_, queryVars, obsVars, regLast, client,
                   clientLast, procs, mcpClients_, mcpServerConfigs_, mcpLast>>

\* lines 436-458 of sendRequest with a line in the pipe: the request x was
\* written, readLine returns the line of the request k at once and it is
\* parsed and returned; the id of the response is not read.  The child
\* answers the new request (answers) or not.
ReadFirstLine(x, k, answers) ==
    /\ client' = [client EXCEPT !.transport_ = x.transport]
    /\ procs' = procs
    /\ wire' = Append([wire EXCEPT ![k].line = "read"],
                      [id |-> x.id, ended |-> "response",
                       line |-> IF answers THEN "unread" ELSE "none"])
    /\ clientLast' = [ClientOp("sendRequest") EXCEPT
                         !.kind = "response", !.asked = TRUE, !.sent = 1,
                         !.id = x.id, !.answerTo = wire[k].id]
    /\ pc' = pc

\* StdioTransport::sendRequest on the client's transport, whose pipe may
\* hold a line
SendRequestOnPipe(b) ==
    /\ AgentRuns
    /\ CanBuild
    /\ IF sendRequest(client.transport_, procs, b).sent = 1 /\ FirstUnread(wire) # 0
       THEN ReadFirstLine(sendRequest(client.transport_, procs, b), FirstUnread(wire),
                          b = "result")
       ELSE Exchanged("sendRequest", sendRequest(client.transport_, procs, b))
    /\ UNCHANGED <<promptVars, agentVars, tools_, userInput, stepsLimit, stepsTaken, messages,
                   finalAnswer, lastError, errorCount, stepResults, toolCallHistory,
                   response, parsed, outcome, obsVars, regLast, mcpClients_,
                   mcpServerConfigs_, mcpLast>>

PipeBehaviours == {"result", "timeout"}

NextPipe ==
    \/ \E how \in LaunchOutcomes : TransportConnect(how)
    \/ \E b \in PipeBehaviours : SendRequestOnPipe(b)
    \/ \E i \in DOMAIN wire : ChildAnswersLate(i)

SpecPipe == InitClient /\ [][NextPipe]_vars

\* C35 (request/response pairing): the JSON that sendRequest returns for
\* the request with id k is the server's response to the request k; after an
\* earlier request of the transport timed out, a late response to it is not
\* delivered as the answer to a later request.
C35_Pairing ==
    (clientLast.op = "sendRequest" /\ clientLast.kind = "response") =>
        clientLast.answerTo = clientLast.id

\* what holds of the code: the response is that of the request as long as
\* no request written before it timed out
C35_PairedWithoutTimeout ==
    (/\ clientLast.op = "sendRequest"
     /\ clientLast.kind = "response"
     /\ \A i \in 1..clientLast.wireBefore : wire[i].ended # "Timeout") =>
        clientLast.answerTo = clientLast.id

\* the late response to the request 0, which timed out, has been returned
\* for the request 1
C35_StaleDelivered ==
    /\ clientLast.op = "sendRequest"
    /\ clientLast.kind = "response"
    /\ clientLast.id = 1
    /\ clientLast.answerTo = 0
    /\ wire[1].ended = "Timeout"

-----------------------------------------------------------------------------
(* The step-limit answer and the answers of the model's replies *)

IsStepLimitResult(result) ==
    Len(result) >= 27 /\ SubSeq(result, 1, 27) = "Reached maximum steps limit"

\* the query has returned on a reply that carried an answer
ReturnedOnAnswer == pc = "returned" /\ exitReason = "answer" /\ HasValue(parsed.answer)

\* C36 (the step-limit message comes from the step limit only): a returned
\* result that starts with "Reached maximum steps limit" has steps_taken =
\* steps_limit and no reply of the query carried an answer; when a reply
\* carries an answer the returned result is that answer.
C36_StepLimitOnly ==
    /\ (pc = "returned" /\ IsStepLimitResult(outcome.result)) =>
          /\ outcome.steps_taken = outcome.steps_limit
          /\ exitReason # "answer"
    /\ ReturnedOnAnswer => outcome.result = Value(parsed.answer)

\* what holds of the code: the same for the answers that are not empty and
\* the limits that are not negative
C36_NonEmptyAnswers ==
    /\ (pc = "returned" /\ IsStepLimitResult(outcome.result)) =>
          \/ outcome.steps_taken = outcome.steps_limit /\ exitReason # "answer"
          \/ outcome.steps_limit < 0
          \/ ReturnedOnAnswer /\ Value(parsed.answer) = ""
    /\ (ReturnedOnAnswer /\ Value(parsed.answer) # "") =>
          outcome.result = Value(parsed.answer)

\* a reply with the answer "" in the first of several steps has given the
\* step-limit message
C36_EmptyAnswer ==
    /\ ReturnedOnAnswer
    /\ Value(parsed.answer) = ""
    /\ outcome.steps_taken = 1
    /\ outcome.steps_limit > 1
    /\ IsStepLimitResult(outcome.result)

-----------------------------------------------------------------------------
(* After a reconnect that failed *)

\* an invocation has just ended with a value
InvocationEnded == mcpLast.kind = "value" /\ pc = "idle"

\* the server of a registered remote tool
ServerOfTool(tools, name) == Value(Value(LookupTool(tools, name)).mcpServer)

\* the state an invocation leaves when its reconnect has failed: the agent
\* holds no client for the server, whose tools are still registered
AfterFailedReconnect(last, at, tools, clients, configs) ==
    (last.kind = "value" /\ at = "idle" /\ last.failed = "reconnect") =>
        /\ IsRemote(LookupTool(tools, last.tool))
        /\ ServerOfTool(tools, last.tool) \notin DOMAIN clients
        /\ ServerOfTool(tools, last.tool) \in DOMAIN configs

\* an invocation of a tool of a server the agent holds no client for gives
\* an error object; no process is spawned, no reconnect tried, no request sent
WithoutClient(last, at, tools, clients) ==
    (last.kind = "value" /\ at = "idle" /\ last.entry = "absent") =>
        /\ last.value = NotFoundError(ServerOfTool(tools, last.tool))
        /\ ~last.raised
        /\ last.spawns = 0
        /\ last.reconnects = 0
        /\ last.calls = 0
        /\ ServerOfTool(tools, last.tool) \notin DOMAIN clients

\* C37 (a failed reconnect is final): when a reconnect for a server S has
\* failed the agent holds no client for S; an invocation of a tool of S made
\* while it holds none returns an error object, spawns no process and tries
\* no reconnect; only connectMcpServer puts a client for S back; and the
\* tools of S stay registered throughout.
C37_FailedReconnectFinal ==
    /\ [][mcpLast' # mcpLast =>
              /\ AfterFailedReconnect(mcpLast', pc', tools_', mcpClients_', mcpServerConfigs_')
              /\ WithoutClient(mcpLast', pc', tools_', mcpClients_')]_vars
    /\ [][(mcpLast' # mcpLast /\ mcpLast'.entry = "absent" /\ mcpLast'.kind = "value")
              => (procs' = procs /\ mcpClients_' = mcpClients_)]_vars
    /\ [][(\E n \in DOMAIN mcpClients_' : n \notin DOMAIN mcpClients_)
              => (pc = "idle" /\ pc' = "idle" /\ mcpLast' = mcpLast)]_vars
    /\ [][\A n \in DOMAIN tools_ : n \in DOMAIN tools_' /\ tools_'[n] = tools_[n]]_vars

\* a tool of a server has been invoked while the agent held its spawn
\* configuration and no client for it, two children having come and gone
C37_Witness ==
    /\ InvocationEnded
    /\ mcpLast.entry = "absent"
    /\ mcpLast.tool = "mcp_srv_echo"
    /\ mcpLast.value = NotFoundError("srv")
    /\ "srv" \in DOMAIN mcpServerConfigs_
    /\ mcpClients_ = <<>>
    /\ Len(procs) = 2
    /\ "mcp_srv_echo" \in DOMAIN tools_

\* a reconnect has just failed
C37_ReconnectFailed ==
    /\ InvocationEnded
    /\ mcpLast.failed = "reconnect"
    /\ mcpLast.reconnects = 1
    /\ mcpClients_ = <<>>

-----------------------------------------------------------------------------
(* One query after another *)

\* what processQuery starts from: PLANNING, no step taken, no executed call
\* remembered, no step result, no last error
FreshLoopState(state, steps, history, results, error, errors) ==
    /\ state = "PLANNING"
    /\ steps = 0
    /\ history = <<>>
    /\ results = <<>>
    /\ error = ""
    /\ errors = 0

\* the first step of a query adds no recovery prompt: its LLM calls are
\* passed the stored history and the user message, nothing after them
FirstStepPlain ==
    (pc \in {"llm", "retry"} /\ stepsTaken = 1) =>
        /\ executionState_ = "PLANNING"
        /\ Len(messages) = Len(conversationHistory_) + 1
        /\ ~IsRecoveryPrompt(messages[Len(messages)])

\* the detector counts the calls of the running query only: what it reads
\* is never longer than the steps the query has taken
CountsOwnCalls == InLoop => Len(toolCallHistory) <= stepsTaken

\* C38 (no leakage between queries): every processQuery starts in PLANNING
\* with step counter 0, an empty loop-detector history, no step results and
\* no last error; so its first step injects no recovery prompt, whatever the
\* query before ended with, and the loop detector reads calls of the running
\* query only.
C38_NoLeakage ==
    /\ [][queries' # queries =>
              FreshLoopState(executionState_', stepsTaken', toolCallHistory',
                             stepResults', lastError', errorCount')]_vars
    /\ [](FirstStepPlain /\ CountsOwnCalls)

\* the second query is in its first step; the query before it ended at its
\* step limit with a failed tool result, which is the last message of the
\* history
C38_Witness ==
    /\ queries = 2
    /\ pc = "llm"
    /\ stepsTaken = 1
    /\ executionState_ = "PLANNING"
    /\ toolCallHistory = <<>>
    /\ conversationHistory_ # <<>>
    /\ Substr(conversationHistory_[Len(conversationHistory_)].content, 0, 13) = "[Result from "
    /\ FindFrom(conversationHistory_[Len(conversationHistory_)].content,
                "Tool execution failed", 1) > 0
    /\ messages = Append(conversationHistory_, UserMessage(userInput))

-----------------------------------------------------------------------------
(* A connect that fails *)

\* what a connect that returned false is claimed to leave: an error text,
\* a client that is not connected and has no running child, and a callTool
\* that throws "Not connected" without writing a request
NothingLeft(last, c, ps) ==
    (last.op = "connect" /\ last.kind = "false") =>
        /\ last.what # ""
        /\ ~isConnected(c.transport_, ps).alive
        /\ ~c.transport_.running
        /\ \A pid \in DOMAIN ps : ps[pid] \notin {"alive", "deaf"}
        /\ \A b \in ServerBehaviours :
              /\ callTool(ClientName, c.transport_, ps, b).kind = "runtime_error"
              /\ callTool(ClientName, c.transport_, ps, b).sent = 0

\* the same for the failures other than an error in the initialize response
NothingLeftUnlessAnswered(last, c, ps) ==
    (last.what # "Initialization failed: tool failed") => NothingLeft(last, c, ps)

\* what the error branch of lines 543-547 leaves when the child goes on
\* running: the transport connected, and a callTool that is sent
LeftRunning(last, c, ps) ==
    (last.op = "connect" /\ last.kind = "false"
         /\ last.what = "Initialization failed: tool failed"
         /\ ps[c.transport_.pid] = "alive") =>
        /\ isConnected(c.transport_, ps).alive
        /\ callTool(ClientName, c.transport_, ps, "result").kind = "value"

\* C39 (failed connect leaves nothing behind): when MCPClient::connect
\* returns false, because the spawn failed, the child died at once, the
\* initialize request failed in the transport or its response carried an
\* error, then lastError_ is set, the client is not connected, no child of
\* it runs, and a callTool that follows fails as not connected.
C39_FailedConnectClean ==
    [][clientLast' # clientLast => NothingLeft(clientLast', client', procs')]_vars

\* what holds of the code: so it is for every failure but an initialize
\* response that carries an error, after which the child is left running
\* and connected
C39_CleanUnlessAnswered ==
    [][clientLast' # clientLast =>
           /\ NothingLeftUnlessAnswered(clientLast', client', procs')
           /\ LeftRunning(clientLast', client', procs')]_vars

\* connect has returned false on an initialize response with an error, and
\* the child it spawned runs on, owned by a connected transport
C39_LeftRunning ==
    /\ clientLast.op = "connect"
    /\ clientLast.kind = "false"
    /\ clientLast.what = "Initialization failed: tool failed"
    /\ client.transport_.running
    /\ procs[client.transport_.pid] = "alive"
    /\ isConnected(client.transport_, procs).alive

\* connect has returned false after a read timeout on initialize
C39_TimedOut ==
    /\ clientLast.op = "connect"
    /\ clientLast.kind = "false"
    /\ clientLast.what = "Error during initialization: MCP server read timeout after 30s"
    /\ ~client.transport_.running

-----------------------------------------------------------------------------
(* Who owns the children *)

\* the children that have not exited
LiveChildren == {pid \in DOMAIN procs : procs[pid] \in {"alive", "deaf"}}

\* the live children the client stored for a server owns: the child of its
\* transport while the transport is running
OwnedBy(name) ==
    IF mcpClients_[name].running /\ mcpClients_[name].pid \in LiveChildren
    THEN {mcpClients_[name].pid}
    ELSE {}

\* every live child is owned by a client of the map, and no two clients own
\* the same child
Ownership ==
    /\ \A pid \in LiveChildren : \E n \in DOMAIN mcpClients_ : pid \in OwnedBy(n)
    /\ \A n, m \in DOMAIN mcpClients_ : (OwnedBy(n) \cap OwnedBy(m) # {}) => n = m
    /\ \A n \in DOMAIN mcpClients_ : Cardinality(OwnedBy(n)) <= 1

\* C40 (process ownership): after any sequence of connectMcpServer,
\* disconnectMcpServer, tool calls and reconnects the agent holds at most
\* one client per server name, each client owns at most one live child, and
\* no child is alive without a client of the map owning it.
C40_ProcessOwnership == Ownership

\* a server has been attached again under its name while its client was in
\* the map: the first child is still the owned one, the second is gone
C40_Witness ==
    /\ pc = "idle"
    /\ Len(procs) = 2
    /\ "srv" \in DOMAIN mcpClients_
    /\ OwnedBy("srv") = {1}
    /\ LiveChildren = {1}

====
